---- MODULE Spec2Model ----
(***************************************************************************)
(* Node graph runner: the dependency scheduler (core/engine/               *)
(* graph_executor.py) and the isolated invoker with its marker protocol    *)
(* (core/engine/embedded_executor.py).                                     *)
(*                                                                         *)
(* Spec       : execute_graph run over a graph, one node at a time.        *)
(* SpecSort   : topological_sort applied to every bounded graph.           *)
(* SpecInvoke : one execute_node call, step by step.                       *)
(* SpecParse  : _parse_result applied to every bounded stdout.             *)
(* SpecCheck  : check_code_safety (utils/sandbox.py) on bounded snippets.  *)
(* SpecRuntime: get_executor / reset_executor and the runtime search.      *)
(* SpecPip    : the package operations of the executor.                    *)
(* SpecWindow : execute_graph started from the window, with Stop and the   *)
(*              values typed in the property panel.                        *)
(* SpecEditor : the editing operations on the scene (ui/main_window.py,    *)
(*              core/graphics/).                                           *)
(* SpecRuns   : runs started one after another from the window.            *)
(* SpecReentry: the same, with a run started while another is going on.    *)
(* SpecPorts  : the connection lists of the ports under connect,           *)
(*              disconnect and delete (core/graphics/).                    *)
(* SpecLibrary: the node library under create, update and delete           *)
(*              (core/nodes/node_library.py, ui/dialogs/).                 *)
(***************************************************************************)
EXTENDS Integers, Sequences, FiniteSets, TLC

VARIABLES
    nodes,          \* the node list handed to execute_graph, in list order
    edges,          \* finalized connections, in the order they were made
    executor,       \* TRUE when an executor instance was passed, FALSE for None
    status,         \* node -> SimpleNodeItem._status
    error_message,  \* node -> SimpleNodeItem._error_message
    result,         \* node -> SimpleNodeItem.result
    sorted_nodes,   \* execute_graph's local sorted_nodes
    idx,            \* position of the for loop in sorted_nodes
    has_error,      \* execute_graph's local has_error
    kwargs,         \* node -> the argument map built for it in this run
    invoked,        \* node -> what its execute_node call of this run did
    ret,            \* what execute_graph returned ("none" while running)
    pc,             \* where execute_graph stands
    \* one execute_node call
    func_code,      \* the snippet
    args,           \* the argument map
    imports,        \* the modules to pre-import
    timeout,        \* the limit in seconds
    child,          \* what the snippet's function does when it is called
    script,         \* the driver script built for the call
    script_path,    \* the temporary script file: "none", "written", "deleted"
    spawned,        \* number of child processes started by the call
    unlink_calls,   \* number of os.unlink calls made for the script file
    completed,      \* what subprocess.run gave back
    outcome,        \* what the call returned or raised
    previous,       \* what the call before it, on the same inputs, returned or raised
    calls,          \* number of calls made with these inputs
    ipc,            \* where execute_node stands
    \* one _parse_result call
    stdout,         \* the text handed to _parse_result
    parsed,         \* what it returned or raised
    ppc,            \* where _parse_result stands
    \* the interpreter the controller runs on
    lazy_annotations,   \* TRUE when it evaluates annotations on demand only
    \* one check_code_safety call
    snippet,        \* the code checked
    allowed_modules,\* the extra allowed modules
    check_result,   \* the SecurityCheckResult returned
    cpc,            \* where the caller stands: "off", "start", "loaded",
                    \* "import_failed", "done"
    \* the embedded runtime and the module-level executor
    environ,        \* os.environ.get("NODE_PYTHON_EMBEDDED")
    disk,           \* path -> what is on disk there
    _executor,      \* the module global _executor
    constructions,  \* number of EmbeddedPythonExecutor objects built so far
    resolved_since_reset,   \* of these, those built since the last reset
    cached_before,  \* _executor as the last get_executor call found it
    found,          \* what _find_embedded_python gave in the last call
    got,            \* what the last get_executor call returned or raised
    rpc,            \* the last operation: "off", "start", "got", "reset", "changed"
    \* one package operation
    pip_op,         \* the method called
    pip_stat,       \* what Path(requirements_file).exists() does
    pip_run,        \* what subprocess.run does for the pip command
    pip_result,     \* what the method returned or raised
    installed,      \* the packages installed in the embedded runtime
    manifest,       \* the lines of the file export_requirements wrote
    pipc,           \* "off", "start", "done"
    \* the main window around a run
    param_values,   \* node -> SimpleNodeItem.param_values
    stop_at,        \* position of the loop when stop_graph was first called
                    \* in this run, 0 when it was not
    \* the scene of the editor
    scene_nodes,    \* node id -> library name, for the nodes in the scene
    scene_conns,    \* the finalized ConnectionItems, in the order they were made
    signature,      \* the definition of the library's custom node
    epc,            \* the last editor operation
    \* the runs started from the window
    frames,         \* the runs interrupted by a run started inside them: the
                    \* locals of execute_graph of each, the outermost first
    run_no,         \* number of calls of run_graph so far
    \* the connection lists of the ports
    connections,    \* port -> PortItem.connections, the ConnectionItems it lists
    conn_ends,      \* ConnectionItem -> its start_port and end_port, and
                    \* whether it is an item of the scene
    \* the node library (core/nodes/node_library.py)
    NODE_LIBRARY_CATEGORIZED,   \* the categories in insertion order, each
                    \* with the names of its nodes
    LOCAL_NODE_LIBRARY,     \* the names of the flat index
    CUSTOM_CATEGORIES,      \* the list of the same name
    lpc             \* the last library operation

schedVars == <<nodes, edges, executor, status, error_message, result,
               sorted_nodes, idx, has_error, kwargs, invoked, ret, pc>>
invokeVars == <<func_code, args, imports, timeout, child, script, script_path,
                spawned, unlink_calls, completed, outcome, previous, calls, ipc>>
parseVars == <<stdout, parsed, ppc>>
checkVars == <<snippet, allowed_modules, check_result, cpc>>
runtimeVars == <<environ, disk, _executor, constructions, resolved_since_reset,
                 cached_before, found, got, rpc>>
pipVars == <<pip_op, pip_stat, pip_run, pip_result, installed, manifest, pipc>>
uiVars == <<param_values, stop_at>>
editVars == <<scene_nodes, scene_conns, signature, epc>>
runVars == <<frames, run_no>>
portVars == <<connections, conn_ends>>
libVars == <<NODE_LIBRARY_CATEGORIZED, LOCAL_NODE_LIBRARY, CUSTOM_CATEGORIES, lpc>>
restVars == <<lazy_annotations, checkVars, runtimeVars, pipVars, uiVars, editVars,
              runVars, portVars, libVars>>

vars == <<schedVars, invokeVars, parseVars, restVars>>

----------------------------------------------------------------------------
(* Bounds of the model                                                     *)

MaxGraphSize == 3   \* graphs of up to this many nodes and connections together
MaxStrLen == 2      \* argument strings of up to this many characters
MaxStdoutLines == 3 \* texts of up to this many lines given to _parse_result
SortMaxNodes == 2   \* the same, for the graphs given to topological_sort alone
SortMaxEdges == 2
MaxBodyLines == 2   \* function bodies of up to this many statements are checked

----------------------------------------------------------------------------
(* Values: what a node's result or an argument can be (JSON values)        *)

None == [k |-> "none", v |-> 0]
IntV(n) == [k |-> "int", v |-> n]

\* Results a snippet returns in the scheduler's runs.
RunValues == {None, IntV(1), IntV(2)}

\* Input port names of a node (the parameters of its function).
PortNames == {"a", "b"}

\* F applied to the value of x, with x evaluated once.
Eval(F(_), x) == CHOOSE r \in {F(val) : val \in {x}} : TRUE

STATUS_IDLE == "idle"
STATUS_RUNNING == "running"
STATUS_SUCCESS == "success"
STATUS_ERROR == "error"

----------------------------------------------------------------------------
(* Text.  A text (the driver script's argument literal, a process's stdout *)
(* or stderr) is a sequence of symbols.  Each symbol stands for a fixed    *)
(* piece of text: "NL" a line break, "SP" a blank, "SQ" "DQ" "BS" the      *)
(* characters ' " and \, "S" and "E" the strings __RESULT_START__ and     *)
(* __RESULT_END__, "ES" and "EE" the strings __ERROR_START__ and           *)
(* __ERROR_END__, the JSON punctuation and literals themselves, a digit    *)
(* itself, and any other symbol ("x", "success", "result", ...) the        *)
(* letters of its name.                                                    *)

StrV(s) == [k |-> "str", v |-> s]
BoolV(b) == [k |-> "bool", v |-> b]
ListV(l) == [k |-> "list", v |-> l]
ObjV(pairs) == [k |-> "obj", v |-> pairs]      \* pairs: <<key, value>>, in order

DigitSyms == <<"0", "1", "2", "3", "4", "5", "6", "7", "8", "9">>
IsDigit(c) == \E d \in 1..10 : DigitSyms[d] = c
DigitVal(c) == (CHOOSE d \in 1..10 : DigitSyms[d] = c) - 1
IsSpace(c) == c \in {"NL", "SP"}

RECURSIVE Digits(_)
Digits(n) ==
    IF n < 10 THEN <<DigitSyms[n + 1]>>
    ELSE Digits(n \div 10) \o <<DigitSyms[(n % 10) + 1]>>

\* str.find(marker): the 0-based offset of the first occurrence, or -1.
RECURSIVE FindFrom(_, _, _)
FindFrom(t, c, i) ==
    IF i > Len(t) THEN -1
    ELSE IF t[i] = c THEN i - 1
    ELSE FindFrom(t, c, i + 1)

Find(t, c) == FindFrom(t, c, 1)

\* t[lo:hi] with Python's 0-based, end-exclusive offsets (empty when hi <= lo).
Slice(t, lo, hi) ==
    LET h == IF hi > Len(t) THEN Len(t) ELSE hi
    IN IF h <= lo THEN <<>> ELSE SubSeq(t, lo + 1, h)

RECURSIVE LStrip(_)
LStrip(t) == IF t # <<>> /\ IsSpace(Head(t)) THEN LStrip(Tail(t)) ELSE t

RECURSIVE RStrip(_)
RStrip(t) ==
    IF t # <<>> /\ IsSpace(t[Len(t)]) THEN RStrip(SubSeq(t, 1, Len(t) - 1)) ELSE t

\* str.strip()
Strip(t) == RStrip(LStrip(t))

\* str.split('\n'): the lines of t, in order.
RECURSIVE SplitLines(_, _, _)
SplitLines(t, cur, acc) ==
    IF t = <<>> THEN Append(acc, cur)
    ELSE IF Head(t) = "NL" THEN SplitLines(Tail(t), <<>>, Append(acc, cur))
    ELSE SplitLines(Tail(t), Append(cur, Head(t)), acc)

Lines(t) == SplitLines(t, <<>>, <<>>)


----------------------------------------------------------------------------
(* json.dumps(..., ensure_ascii=False) and json.loads                      *)

\* The body of a JSON string: a quote and a backslash get a backslash.
RECURSIVE JsonEscape(_)
JsonEscape(s) ==
    IF s = <<>> THEN <<>>
    ELSE (IF Head(s) \in {"DQ", "BS"} THEN <<"BS", Head(s)>>
          ELSE IF Head(s) = "NL" THEN <<"BS", "n">>
          ELSE <<Head(s)>>)
         \o JsonEscape(Tail(s))

RECURSIVE json_dumps(_)
RECURSIVE DumpItems(_)
RECURSIVE DumpPairs(_)

DumpItems(l) ==
    IF l = <<>> THEN <<>>
    ELSE json_dumps(Head(l))
         \o (IF Len(l) > 1 THEN <<",", "SP">> ELSE <<>>) \o DumpItems(Tail(l))

DumpPairs(ps) ==
    IF ps = <<>> THEN <<>>
    ELSE <<"DQ">> \o JsonEscape(Head(ps)[1]) \o <<"DQ", ":", "SP">>
         \o json_dumps(Head(ps)[2])
         \o (IF Len(ps) > 1 THEN <<",", "SP">> ELSE <<>>) \o DumpPairs(Tail(ps))

json_dumps(obj) ==
    Eval(LAMBDA val :
           CASE val.k = "none" -> <<"null">>
             [] val.k = "bool" -> IF val.v THEN <<"true">> ELSE <<"false">>
             [] val.k = "int"  -> Digits(val.v)
             [] val.k = "str"  -> <<"DQ">> \o JsonEscape(val.v) \o <<"DQ">>
             [] val.k = "list" -> <<"[">> \o DumpItems(val.v) \o <<"]">>
             [] val.k = "obj"  -> <<"{">> \o DumpPairs(val.v) \o <<"}">>,
         obj)

\* The parser: each Parse* returns [ok, v, i], i the position after what it read.
ParseFail == [ok |-> FALSE, v |-> None, i |-> 0]
Parsed(val, i) == [ok |-> TRUE, v |-> val, i |-> i]

RECURSIVE SkipSpace(_, _)
SkipSpace(t, i) ==
    IF i \in 1..Len(t) /\ IsSpace(t[i]) THEN SkipSpace(t, i + 1) ELSE i

RECURSIVE ParseNumber(_, _, _)
ParseNumber(t, i, acc) ==
    IF i <= Len(t) /\ IsDigit(t[i]) THEN ParseNumber(t, i + 1, acc * 10 + DigitVal(t[i]))
    ELSE Parsed(IntV(acc), i)

\* From the symbol after the opening quote to the closing quote.
RECURSIVE ParseString(_, _, _)
ParseString(t, i, acc) ==
    IF i > Len(t) THEN ParseFail
    ELSE IF t[i] = "DQ" THEN Parsed(StrV(acc), i + 1)
    ELSE IF t[i] = "NL" THEN ParseFail
    ELSE IF t[i] = "BS" THEN
        IF i + 1 <= Len(t) /\ t[i + 1] \in {"DQ", "BS"}
        THEN ParseString(t, i + 2, Append(acc, t[i + 1]))
        ELSE IF i + 1 <= Len(t) /\ t[i + 1] = "n"
        THEN ParseString(t, i + 2, Append(acc, "NL"))
        ELSE ParseFail
    ELSE ParseString(t, i + 1, Append(acc, t[i]))

RECURSIVE ParseValue(_, _)
RECURSIVE ParseItems(_, _, _)
RECURSIVE ParsePairs(_, _, _)

\* After "[" or after a ",": a value, then "," or "]".
ParseItems(t, i, acc) ==
    Eval(LAMBDA r :
           Eval(LAMBDA j :
                  IF ~r.ok \/ j > Len(t) THEN ParseFail
                  ELSE IF t[j] = "]" THEN Parsed(ListV(Append(acc, r.v)), j + 1)
                  ELSE IF t[j] = "," THEN ParseItems(t, j + 1, Append(acc, r.v))
                  ELSE ParseFail,
                SkipSpace(t, r.i)),
         ParseValue(t, SkipSpace(t, i)))

\* After "{" or after a ",": a string key, ":", a value, then "," or "}".
ParseKey(t, i) ==
    IF i <= Len(t) /\ t[i] = "DQ" THEN ParseString(t, i + 1, <<>>) ELSE ParseFail

ParseColonValue(t, key, c) ==
    IF key.ok /\ c <= Len(t) /\ t[c] = ":"
    THEN ParseValue(t, SkipSpace(t, c + 1)) ELSE ParseFail

ParsePairs(t, i, acc) ==
    Eval(LAMBDA key :
      Eval(LAMBDA r :
        Eval(LAMBDA j :
               IF ~r.ok \/ j > Len(t) THEN ParseFail
               ELSE IF t[j] = "}" THEN Parsed(ObjV(Append(acc, <<key.v.v, r.v>>)), j + 1)
               ELSE IF t[j] = "," THEN ParsePairs(t, j + 1, Append(acc, <<key.v.v, r.v>>))
               ELSE ParseFail,
             SkipSpace(t, r.i)),
        ParseColonValue(t, key, SkipSpace(t, key.i))),
      ParseKey(t, SkipSpace(t, i)))

ParseValue(t, i) ==
    IF i > Len(t) THEN ParseFail
    ELSE CASE t[i] = "null"  -> Parsed(None, i + 1)
           [] t[i] = "true"  -> Parsed(BoolV(TRUE), i + 1)
           [] t[i] = "false" -> Parsed(BoolV(FALSE), i + 1)
           [] IsDigit(t[i])  -> ParseNumber(t, i, 0)
           [] t[i] = "DQ"    -> ParseString(t, i + 1, <<>>)
           [] t[i] = "["     ->
                LET j == SkipSpace(t, i + 1)
                IN IF j <= Len(t) /\ t[j] = "]" THEN Parsed(ListV(<<>>), j + 1)
                   ELSE ParseItems(t, i + 1, <<>>)
           [] t[i] = "{"     ->
                LET j == SkipSpace(t, i + 1)
                IN IF j <= Len(t) /\ t[j] = "}" THEN Parsed(ObjV(<<>>), j + 1)
                   ELSE ParsePairs(t, i + 1, <<>>)
           [] OTHER -> ParseFail

\* json.loads(t): [ok, v]; ok = FALSE is json.JSONDecodeError.
JsonDecoded(text) ==
    Eval(LAMBDA r : IF r.ok /\ SkipSpace(text, r.i) = Len(text) + 1
                    THEN [ok |-> TRUE, v |-> r.v] ELSE [ok |-> FALSE, v |-> None],
         ParseValue(text, SkipSpace(text, 1)))

json_loads(t) == Eval(LAMBDA text : JsonDecoded(text), t)

\* dict.get(key, default) and `key in dict` on a decoded object (the last
\* pair of a repeated key wins, as in json.loads).
RECURSIVE DictGet(_, _, _)
DictGet(ps, key, default) ==
    IF ps = <<>> THEN default
    ELSE IF ps[Len(ps)][1] = key THEN ps[Len(ps)][2]
    ELSE DictGet(SubSeq(ps, 1, Len(ps) - 1), key, default)

HasKey(ps, key) == \E i \in 1..Len(ps) : ps[i][1] = key

\* Python's truth value of a decoded JSON value.
Truthy(val) ==
    CASE val.k = "none" -> FALSE
      [] val.k = "bool" -> val.v
      [] val.k = "int"  -> val.v # 0
      [] OTHER -> val.v # <<>>

----------------------------------------------------------------------------
(* The Python string literal of the driver script.  The script holds the   *)
(* line  args = json.loads('<args_json>')  : Python reads the text between *)
(* the parentheses as adjacent string literals and hands their             *)
(* concatenation, escapes resolved, to json.loads.                         *)

PyFail == [ok |-> FALSE, text |-> <<>>]

\* mode "sq" / "dq": inside a '...' / "..." literal; "out": between literals.
\* The text t is followed by the closing ' of the script's own literal.
RECURSIVE PyLiteral(_, _, _, _)
PyLiteral(t, i, mode, acc) ==
    IF i > Len(t) THEN
        \* the script's closing quote ends a '...' literal; anywhere else it
        \* opens one that no later quote of the line closes
        IF mode = "sq" THEN [ok |-> TRUE, text |-> acc] ELSE PyFail
    ELSE IF mode = "out" THEN
        IF IsSpace(t[i]) THEN PyLiteral(t, i + 1, "out", acc)
        ELSE IF t[i] \in {"SQ", "DQ"} THEN
            IF i + 2 <= Len(t) /\ t[i + 1] = t[i] /\ t[i + 2] = t[i]
            THEN PyFail      \* a triple-quoted literal the script never closes
            ELSE PyLiteral(t, i + 1, IF t[i] = "SQ" THEN "sq" ELSE "dq", acc)
        ELSE PyFail          \* a name or a stray character next to a literal
    ELSE IF t[i] = "NL" THEN PyFail
    ELSE IF t[i] = "BS" THEN
        IF i + 1 > Len(t) THEN PyFail
        ELSE IF t[i + 1] \in {"BS", "SQ", "DQ"}
        THEN PyLiteral(t, i + 2, mode, Append(acc, t[i + 1]))
        ELSE IF t[i + 1] = "n" THEN PyLiteral(t, i + 2, mode, Append(acc, "NL"))
        ELSE PyLiteral(t, i + 2, mode, acc \o <<"BS", t[i + 1]>>)
    ELSE IF (mode = "sq" /\ t[i] = "SQ") \/ (mode = "dq" /\ t[i] = "DQ")
    THEN PyLiteral(t, i + 1, "out", acc)
    ELSE PyLiteral(t, i + 1, mode, Append(acc, t[i]))

\* What the script's '<t>' evaluates to; ok = FALSE: the script is a SyntaxError.
PyDecode(t) == Eval(LAMBDA text : PyLiteral(text, 1, "sq", <<>>), t)

----------------------------------------------------------------------------
(* Outcomes of a call: a returned value or a raised exception              *)

\* exc: the exception class; kind: which raise statement; text: the variable
\* part of the message; limit: the number of seconds a timeout message names.
Err(exc, kind, text, limit) == [exc |-> exc, kind |-> kind, text |-> text, limit |-> limit]
NoErr == Err("", "", <<>>, 0)

Return(val) == [ok |-> TRUE, val |-> val, err |-> NoErr]
Raise(e) == [ok |-> FALSE, val |-> None, err |-> e]

\* str(value) of a decoded JSON value, as message text.
StrOf(val) == IF val.k = "str" THEN val.v ELSE json_dumps(val)

----------------------------------------------------------------------------
(* Snippets.  A snippet is a sequence of source lines; a line is           *)
(*   "def"      def <name>(  at column 0, <name> in ASCII                  *)
(*   "unidef"   def <name>(  at column 0, <name> holding a non-ASCII       *)
(*              letter (Python allows it, [a-zA-Z_] does not match it)     *)
(*   "asyncdef" async def <name>(  at column 0                             *)
(*   "nested"   an indented def, inside the function above it              *)
(*   "strdef"   a line  def <name>(  at column 0 inside a triple-quoted    *)
(*              string literal                                             *)
(*   "stmt"     any other valid line                                       *)
(*   "bad"      a line that is a syntax error                              *)
(*   "cont"     a valid statement ending with a backslash, as the last     *)
(*              line of the text and with no line break after it           *)
(*   "import"   import <module>  at column 0                               *)
(*   "fimport"  import <module>  inside the function above it              *)
(*   "from"     from <dots><module> import x  inside the function, with    *)
(*              `level` leading dots (module <<>>: from . import x)        *)
(*   "call"     return <name>(a)  inside the function                      *)
(*   "callstmt" <name>(a)  as a statement of the function                  *)
(* A module is the sequence of the components of its dotted name.          *)

Line(t, name) == [t |-> t, name |-> name, module |-> <<>>, level |-> 0]
ImportLine(t, module, level) == [t |-> t, name |-> "", module |-> module, level |-> level]

\* re.findall(r'^def\s+([a-zA-Z_][a-zA-Z0-9_]*)\s*\(', code, re.MULTILINE)
RegexMatches(line) == line.t \in {"def", "strdef"}

RECURSIVE FindAll(_)
FindAll(code) ==
    IF code = <<>> THEN <<>>
    ELSE (IF RegexMatches(Head(code)) THEN <<Head(code).name>> ELSE <<>>)
         \o FindAll(Tail(code))

_extract_func_name(code) ==
    LET matches == FindAll(code)
    IN IF matches = <<>> THEN Raise(Err("ValueError", "no_function", <<>>, 0))
       ELSE IF Len(matches) > 1
       THEN Raise(Err("ValueError", "multiple_functions", matches, 0))
       ELSE Return(StrV(<<matches[1]>>))

\* The functions the snippet defines at its top level when it is run.
TopLevelFunctions(code) ==
    SelectSeq(code, LAMBDA l : l.t \in {"def", "unidef", "asyncdef"})

\* The line of the text where ast.parse finds it wrong, 0 when it parses.
\* A backslash that ends the text continues into nothing.
RECURSIVE FirstBadLine(_, _)
FirstBadLine(code, i) ==
    IF i > Len(code) THEN 0
    ELSE IF code[i].t = "bad" \/ (code[i].t = "cont" /\ i = Len(code)) THEN i
    ELSE FirstBadLine(code, i + 1)

HasSyntaxError(code) == FirstBadLine(code, 1) # 0

\* The text as a part of the driver script, lines 211-214: an empty line and
\* a comment follow it, and the backslash of a last line continues into the
\* empty line.
BreaksScript(code) == \E i \in 1..Len(code) : code[i].t = "bad"

\* utils.sandbox.extract_imports: the top-level names of the modules the
\* snippet imports anywhere in it, [] when it does not parse.  list(set(...))
\* has no defined order: the result is kept as a set.
extract_imports(code) ==
    IF HasSyntaxError(code) THEN {}
    ELSE {code[i].module[1] :
            i \in {j \in 1..Len(code) : /\ code[j].t \in {"import", "fimport", "from"}
                                        /\ code[j].module # <<>>}}

\* The driver script: the parts of the template that vary.  import_lines
\* holds a line  import <name>  for every name of imps.
_build_execution_script(code, kw, imps) ==
    LET name == _extract_func_name(code)
    IN IF ~name.ok THEN name
       ELSE Return([import_lines |-> imps,
                    func_code |-> code,
                    func_name |-> name.val.v[1],
                    args_json |-> json_dumps(kw)])

----------------------------------------------------------------------------
(* The child process.  What the snippet's function does when called is the *)
(* record child: it writes child.prints to stdout and child.errprints to   *)
(* stderr, then                                                            *)
(*   "return"       returns child.value                                    *)
(*   "return_args"  returns the keyword arguments it was called with       *)
(*   "return_a"     returns its argument a                                 *)
(*   "raise"        raises an exception                                    *)
(*   "exit"         ends the process itself with exit code child.rc        *)
(*   "hang"         does not finish                                        *)

Pair(key, val) == <<<<key>>, val>>

TypeName(val) ==
    CASE val.k = "none" -> "NoneType" [] val.k = "bool" -> "bool"
      [] val.k = "int" -> "int"       [] val.k = "str" -> "str"
      [] val.k = "list" -> "list"     [] OTHER -> "dict"

\* output = {"success": True, "result": result, "type": type(result).__name__}
SuccessPayload(val) ==
    ObjV(<<Pair("success", BoolV(TRUE)), Pair("result", val),
           Pair("type", StrV(<<TypeName(val)>>))>>)

\* error_output = {"success": False, "error": ..., "traceback": ...}
ErrorPayload(error, tb) ==
    ObjV(<<Pair("success", BoolV(FALSE)), Pair("error", StrV(error)),
           Pair("traceback", StrV(tb))>>)

ResultBlock(val) == <<"S", "NL">> \o json_dumps(SuccessPayload(val)) \o <<"NL", "E", "NL">>
ErrorBlock(error, tb) ==
    <<"ES", "NL">> \o json_dumps(ErrorPayload(error, tb)) \o <<"NL", "EE", "NL">>

\* traceback.format_exc() of an exception raised under the driver's try.
FormatExc(excname, msg) == <<"Traceback", "NL", "x", "NL", excname, "SP">> \o msg

Completed(rc, out, errtext) ==
    [timed_out |-> FALSE, returncode |-> rc, stdout |-> out, stderr |-> errtext]
TimedOut == [timed_out |-> TRUE, returncode |-> 0, stdout |-> <<>>, stderr |-> <<>>]

\* The function the driver calls exists: the name the regex found is the
\* name of a def the snippet really has.
Defined(scr) ==
    \E i \in 1..Len(scr.func_code) :
        /\ scr.func_code[i].t = "def"
        /\ scr.func_code[i].name = scr.func_name

\* lines 222-226: the payload of the driver's own check of the text, for a
\* SyntaxError at line lineno
SyntaxErrorBlock(lineno) ==
    ErrorBlock(<<"syntax_error", "SP", "x", "SP", "line">> \o Digits(lineno),
               <<"SyntaxError:", "SP", "x", "NL", "line">> \o Digits(lineno))

\* lines 218-221: ast.parse(func_code_str) raises SyntaxError
Revalidate(code) == HasSyntaxError(code)

\* The driver's try block once the script has compiled: literal is the text
\* the script's '<args_json>' evaluates to.
RunDriver(scr, ch, literal) ==
    Eval(LAMBDA kw :
           \* lines 219-230: sys.exit(1) is not an Exception, the except of
           \* line 245 lets it pass
           IF Revalidate(scr.func_code)
           THEN Completed(1, <<>>, SyntaxErrorBlock(FirstBadLine(scr.func_code, 1)))
           \* kw = json.loads('...')
           ELSE IF ~kw.ok
           THEN Completed(1, <<>>, ErrorBlock(<<"x">>, FormatExc("JSONDecodeError:", <<"x">>)))
           \* result = func_name(**kw)
           ELSE IF ~Defined(scr) \/ kw.v.k # "obj"
           THEN Completed(1, <<>>, ErrorBlock(<<"x">>, FormatExc("NameError:", <<"x">>)))
           ELSE CASE ch.end = "hang" -> TimedOut
                  [] ch.end = "exit" -> Completed(ch.rc, ch.prints, ch.errprints)
                  [] ch.end = "raise" ->
                       Completed(1, ch.prints,
                                 ch.errprints
                                 \o ErrorBlock(<<"boom">>, FormatExc("ValueError:", <<"boom">>)))
                  [] ch.end = "return_args" ->
                       Completed(0, ch.prints \o ResultBlock(kw.v), ch.errprints)
                  [] ch.end = "return_a" ->
                       Completed(0, ch.prints \o ResultBlock(DictGet(kw.v.v, <<"a">>, None)),
                                 ch.errprints)
                  [] OTHER ->
                       Completed(0, ch.prints \o ResultBlock(ch.value), ch.errprints),
         json_loads(literal))

\* The modules the runtime of the model cannot import: numpy is not
\* installed in it.
NotInstalled == {"numpy"}

\* subprocess.run([python_exe, script_path], capture_output=True, timeout=...)
\* on the driver script.  The interpreter compiles the whole script before
\* it runs a line of it; the pre-import lines run before the snippet and
\* outside the driver's try block.
subprocess_run(scr, ch) ==
    Eval(LAMBDA literal :
           IF BreaksScript(scr.func_code) \/ ~literal.ok
           THEN Completed(1, <<>>, <<"File", "NL", "SyntaxError:", "SP", "x", "NL">>)
           ELSE IF scr.import_lines \cap NotInstalled # {}
           THEN Completed(1, <<>>, <<"Traceback", "NL", "x", "NL",
                                     "ModuleNotFoundError:", "SP", "x", "NL">>)
           ELSE RunDriver(scr, ch, literal.text),
         PyDecode(scr.args_json))

----------------------------------------------------------------------------
(* EmbeddedPythonExecutor._parse_result and _parse_error                   *)

UnknownError == StrV(<<"unknown_error">>)       \* "未知错误"

\* What a decoded line or payload with a "success" field decides.
Outcome(pairs) ==
    IF Truthy(DictGet(pairs, <<"success">>, None))
    THEN Return(DictGet(pairs, <<"result">>, None))
    ELSE Raise(Err("RuntimeError", "child_error",
                   StrOf(DictGet(pairs, <<"error">>, UnknownError)), 0))

\* The lines are scanned from the first: the first line that decodes to a
\* dict with a "success" key decides.
RECURSIVE ScanForward(_, _)
ScanForward(lines, raw) ==
    IF lines = <<>> THEN Return(StrV(Strip(raw)))
    ELSE Eval(LAMBDA data :
                IF data.ok /\ data.v.k = "obj" /\ HasKey(data.v.v, <<"success">>)
                THEN Outcome(data.v.v)
                ELSE ScanForward(Tail(lines), raw),
              json_loads(Strip(Head(lines))))

\* The lines of the marker-less path, last line first: the first non-empty
\* line that decodes to a dict with a "success" key decides.
RECURSIVE ScanReversed(_, _)
ScanReversed(lines, raw) ==
    IF lines = <<>> THEN Return(StrV(Strip(raw)))
    ELSE Eval(LAMBDA data :
                IF data.ok /\ data.v.k = "obj" /\ HasKey(data.v.v, <<"success">>)
                THEN Outcome(data.v.v)
                ELSE ScanReversed(SubSeq(lines, 1, Len(lines) - 1), raw),
              \* an empty line is skipped, and it is not JSON either
              json_loads(Strip(lines[Len(lines)])))

\* lines 316-328: the text between the markers, parsed strictly
ParseMarked(json_str) ==
    Eval(LAMBDA data :
           IF ~data.ok THEN Raise(Err("RuntimeError", "cannot_parse_result", <<>>, 0))
           ELSE IF data.v.k # "obj"
           THEN Raise(Err("AttributeError", "no_attribute_get", <<>>, 0))
           ELSE Outcome(data.v.v),
         json_loads(json_str))

ParseResultOf(text, start_idx, end_idx) ==
    IF start_idx = -1 \/ end_idx = -1
    THEN Eval(LAMBDA lines : ScanReversed(lines, text), Lines(Strip(text)))
    ELSE ParseMarked(Strip(Slice(text, start_idx + 1, end_idx)))

_parse_result(text) ==
    Eval(LAMBDA out : ParseResultOf(out, Find(out, "S"), Find(out, "E")), text)

\* What _parse_result prints as "[节点输出]": the text before the start marker.
printed_output(text) ==
    LET start_idx == Find(text, "S")
    IN IF start_idx > 0 THEN Strip(Slice(text, 0, start_idx)) ELSE <<>>

\* 'Error:' in line or 'Exception:' in line
ErrorWords == {"SyntaxError:", "NameError:", "ValueError:", "JSONDecodeError:",
               "ModuleNotFoundError:", "Exception:"}
HasErrorWord(line) == \E i \in 1..Len(line) : line[i] \in ErrorWords
HasTraceback(line) == \E i \in 1..Len(line) : line[i] = "Traceback"

RECURSIVE JoinLines(_)
JoinLines(ls) ==
    IF ls = <<>> THEN <<>>
    ELSE IF Len(ls) = 1 THEN ls[1]
    ELSE ls[1] \o <<"NL">> \o JoinLines(Tail(ls))

\* One line of the loop over the lines of the output; st = [tb, in_tb, err].
ScanLine(line, st) ==
    IF HasTraceback(line)
    THEN [st EXCEPT !.in_tb = TRUE, !.tb = Append(@, line)]
    ELSE IF st.in_tb
    THEN [st EXCEPT !.tb = Append(@, line),
                    !.err = IF HasErrorWord(line) THEN line ELSE @]
    ELSE IF HasErrorWord(line) /\ st.err = <<>>
    THEN [st EXCEPT !.err = line]
    ELSE st

RECURSIVE ScanTraceback(_, _)
ScanTraceback(lines, st) ==
    IF lines = <<>> THEN st
    ELSE Eval(LAMBDA st2 : ScanTraceback(Tail(lines), st2), ScanLine(Head(lines), st))

\* The short error string is preferred to the diagnostic.
MarkedErrorShort(output) ==
    Eval(LAMBDA data :
           IF Find(output, "ES") # -1 /\ Find(output, "EE") # -1
              /\ data.ok /\ data.v.k = "obj"
           THEN IF Truthy(DictGet(data.v.v, <<"error">>, UnknownError))
                THEN Return(StrV(StrOf(DictGet(data.v.v, <<"error">>, UnknownError))))
                ELSE Return(StrV(StrOf(DictGet(data.v.v, <<"traceback">>, StrV(<<>>)))))
           ELSE Raise(NoErr),
         json_loads(Strip(Slice(output, Find(output, "ES") + 1, Find(output, "EE")))))

\* lines 339-351: a payload between the error markers
MarkedError(output) ==
    Eval(LAMBDA data :
           IF Find(output, "ES") # -1 /\ Find(output, "EE") # -1
              /\ data.ok /\ data.v.k = "obj"
           THEN IF Truthy(DictGet(data.v.v, <<"traceback">>, StrV(<<>>)))
                THEN Return(StrV(StrOf(DictGet(data.v.v, <<"traceback">>, StrV(<<>>)))))
                ELSE Return(StrV(StrOf(DictGet(data.v.v, <<"error">>, UnknownError))))
           ELSE Raise(NoErr),
         json_loads(Strip(Slice(output, Find(output, "ES") + 1, Find(output, "EE")))))

\* lines 353-383: no usable payload
UnmarkedError(output) ==
    Eval(LAMBDA st :
           IF st.tb # <<>> THEN JoinLines(st.tb)
           ELSE IF st.err # <<>> THEN st.err
           ELSE IF Strip(output) # <<>> THEN Strip(output)
           ELSE <<"no_error_info">>,
         ScanTraceback(Lines(Strip(output)),
                       [tb |-> <<>>, in_tb |-> FALSE, err |-> <<>>]))

ParseErrorOf(output) ==
    Eval(LAMBDA marked : IF marked.ok THEN marked.val.v ELSE UnmarkedError(output),
         MarkedError(output))

_parse_error(output) == Eval(LAMBDA out : ParseErrorOf(out), output)

----------------------------------------------------------------------------
(* EmbeddedPythonExecutor.execute_node, as a function of its inputs and of *)
(* what the child does                                                     *)

\* A timeout is reported like any other failure of the child.
AfterRunNoTimeout(run, limit) ==
    IF run.timed_out \/ run.returncode # 0
    THEN Raise(Err("RuntimeError", "child_failed",
                   _parse_error(run.stdout \o <<"NL">> \o run.stderr), 0))
    ELSE _parse_result(run.stdout)

\* lines 147-158: what execute_node makes of the finished (or killed) child
AfterRun(run, limit) ==
    IF run.timed_out THEN Raise(Err("TimeoutError", "timeout", <<>>, limit))
    ELSE IF run.returncode # 0
    THEN Raise(Err("RuntimeError", "child_failed",
                   _parse_error(run.stdout \o <<"NL">> \o run.stderr), 0))
    ELSE _parse_result(run.stdout)

NoRun == [timed_out |-> FALSE, returncode |-> 0, stdout |-> <<>>, stderr |-> <<>>]

\* The whole call: whether a child was spawned, what it gave back, and what
\* the call returned or raised.
Invocation(code, kw, imps, limit, ch) ==
    Eval(LAMBDA built :
           IF ~built.ok
           THEN [spawned |-> FALSE, run |-> NoRun, out |-> Raise(built.err)]
           ELSE Eval(LAMBDA run : [spawned |-> TRUE, run |-> run,
                                   out |-> AfterRun(run, limit)],
                     subprocess_run(built.val, ch)),
         _build_execution_script(code, kw, imps))

execute_node(code, kw, imps, limit, ch) == Invocation(code, kw, imps, limit, ch).out

\* str(e) of a raised exception
Message(e) ==
    CASE e.kind \in {"child_failed", "child_error"} -> e.text
      [] e.kind = "timeout" -> <<"timeout">> \o Digits(e.limit)
      [] OTHER -> <<e.kind>> \o e.text
----------------------------------------------------------------------------
(* Graphs.  Nodes are numbered 1..n in the order of the node list; a       *)
(* connection goes from the output port of src to the input port `port`    *)
(* of dst.  A port's `connections` list holds its connections in the       *)
(* order they were finalized, which is their order in `edges`.             *)

Edge(src, dst, port) == [src |-> src, dst |-> dst, port |-> port]
EdgesOver(n) == [src : 1..n, dst : 1..n, port : PortNames]
SeqsUpTo(S, k) == UNION {[1..m -> S] : m \in 0..k}
NodeList(n) == [i \in 1..n |-> i]

Graph(n, es) == [nodes |-> NodeList(n), edges |-> es]
Graphs(n, maxe) == {Graph(n, es) : es \in SeqsUpTo(EdgesOver(n), maxe)}
AllGraphs(maxn, maxe) == UNION {Graphs(n, maxe) : n \in 0..maxn}
\* every graph whose nodes and connections are at most k together
SizedGraphs(k) == UNION {Graphs(n, k - n) : n \in 0..k}

\* The four-node diamond A->B, A->C, B->D, C->D, with the node list in
\* dependency order and in the reverse order, and a three-node chain whose
\* list order is the reverse of its dependency order.
Diamond == Graph(4, <<Edge(1, 2, "a"), Edge(1, 3, "a"), Edge(2, 4, "a"), Edge(3, 4, "b")>>)
DiamondReversed ==
    Graph(4, <<Edge(4, 3, "a"), Edge(4, 2, "a"), Edge(3, 1, "a"), Edge(2, 1, "b")>>)
ChainReversed == Graph(3, <<Edge(3, 2, "a"), Edge(2, 1, "a")>>)

\* One node feeding both input ports of another, two nodes connected to the
\* same input port of a third, and two nodes feeding each other.
BothPorts == Graph(2, <<Edge(1, 2, "a"), Edge(1, 2, "b")>>)
SamePortTwice == Graph(3, <<Edge(1, 3, "a"), Edge(2, 3, "a")>>)
TwoCycle == Graph(2, <<Edge(1, 2, "a"), Edge(2, 1, "a")>>)
\* Nodes 2 and 3 feed each other; node 4 is fed by node 2 of the cycle and by
\* node 1, which nothing feeds.
CycleFeedsJoin ==
    Graph(4, <<Edge(2, 3, "a"), Edge(3, 2, "a"), Edge(2, 4, "a"), Edge(1, 4, "b")>>)
Scenarios ==
    {Diamond, DiamondReversed, ChainReversed, BothPorts, SamePortTwice, TwoCycle,
     CycleFeedsJoin}
\* Node 1 and node 2 both feed port a of node 3, and node 1 feeds node 2; the
\* connection from node 1 to node 3 was made first.
SharedPortChain == Graph(3, <<Edge(1, 3, "a"), Edge(1, 2, "a"), Edge(2, 3, "a")>>)

\* port.connections of the input port `port` of node n, and of its output port
InConns(es, n, port) == SelectSeq(es, LAMBDA e : e.dst = n /\ e.port = port)
OutConns(es, n) == SelectSeq(es, LAMBDA e : e.src = n)

----------------------------------------------------------------------------
(* topological_sort                                                        *)

\* in_degree[node] += 1 for every connection of every input port
InitialInDegreePerEdge(ns, es) ==
    [n \in {ns[i] : i \in 1..Len(ns)} |->
        Cardinality({i \in 1..Len(es) : es[i].dst = n})]

\* in_degree[node] += 1 for every input port that has a connection
InitialInDegree(ns, es) ==
    [n \in {ns[i] : i \in 1..Len(ns)} |->
        Cardinality({port \in PortNames : InConns(es, n, port) # <<>>})]

\* A target is queued as soon as one of its inputs is served.
RelaxOneEarly(target_node, deg, queue) ==
    [in_degree |-> deg,
     queue |-> IF deg[target_node] \in {0, 1} THEN Append(queue, target_node) ELSE queue]

\* in_degree[target_node] -= 1; at zero the target is appended to the queue
RelaxOne(target_node, deg, queue) ==
    [in_degree |-> deg,
     queue |-> IF deg[target_node] = 0 THEN Append(queue, target_node) ELSE queue]

\* for conn in port.connections, on st = [in_degree, queue]
RECURSIVE Relax(_, _)
Relax(conns, st) ==
    IF conns = <<>> THEN st
    ELSE Eval(LAMBDA st2 : Relax(Tail(conns), st2),
              RelaxOne(Head(conns).dst,
                       [st.in_degree EXCEPT ![Head(conns).dst] = @ - 1], st.queue))

\* while queue: node = queue.pop(0); sorted_nodes.append(node); ...
RECURSIVE KahnLoop(_, _, _)
KahnLoop(es, st, sorted) ==
    IF st.queue = <<>> THEN sorted
    ELSE Eval(LAMBDA st2 : KahnLoop(es, st2, Append(sorted, Head(st.queue))),
              Relax(OutConns(es, Head(st.queue)),
                    [in_degree |-> st.in_degree, queue |-> Tail(st.queue)]))

\* The queue starts with every node, whatever its in-degree.
SortFromAllQueued(ns, es, in_degree) ==
    KahnLoop(es, [in_degree |-> in_degree, queue |-> ns], <<>>)

SortFrom(ns, es, in_degree) ==
    KahnLoop(es, [in_degree |-> in_degree,
                  queue |-> SelectSeq(ns, LAMBDA n : in_degree[n] = 0)], <<>>)

\* The nodes the loop never took from the queue are put at the end.
topological_sort_padded(ns, es) ==
    Eval(LAMBDA sorted :
           sorted \o SelectSeq(ns, LAMBDA n : \A k \in 1..Len(sorted) : sorted[k] # n),
         SortFrom(ns, es, InitialInDegree(ns, es)))

topological_sort(ns, es) ==
    Eval(LAMBDA in_degree : SortFrom(ns, es, in_degree), InitialInDegree(ns, es))

----------------------------------------------------------------------------
(* execute_graph                                                           *)

NodeTimeout == 30       \* timeout=30 in the call of executor.execute_node

OneFunction == <<Line("def", "f"), Line("stmt", "")>>
TwoFunctions == <<Line("def", "f"), Line("stmt", ""), Line("def", "g"), Line("stmt", "")>>
\* one function that imports the block-listed module os in its body
ImportsOs == <<Line("def", "f"), ImportLine("fimport", <<"os">>, 0), Line("stmt", "")>>
NoSource == <<>>

\* What a node is: a custom node with its stored source_code, a built-in
\* node whose name is in BUILTIN_NODE_SOURCE, or another node, whose source
\* inspect.getsource has to find (source <<>>: it cannot).
NodeDef(kind, code) == [kind |-> kind, source_code |-> code]
NodeDefs ==
    {NodeDef("custom", OneFunction), NodeDef("custom", TwoFunctions),
     NodeDef("custom", ImportsOs),
     NodeDef("custom", NoSource), NodeDef("builtin", OneFunction),
     NodeDef("other", NoSource)}

\* lines 109-216: func_code of the node, or the RuntimeError raised for it
ResolveSource(nd) ==
    CASE nd.kind = "custom" /\ nd.source_code = NoSource ->
           Raise(Err("RuntimeError", "no_source_code", <<>>, 0))
      [] nd.kind = "other" /\ nd.source_code = NoSource ->
           Raise(Err("RuntimeError", "cannot_get_source", <<>>, 0))
      [] OTHER -> Return(nd.source_code)

\* What the functions of the nodes do in the scheduler's runs.
Child(prints, end, val) ==
    [prints |-> prints, errprints |-> <<>>, end |-> end, value |-> val, rc |-> 0]
RunChildren ==
    {Child(<<>>, "return", val) : val \in RunValues}
    \cup {Child(<<>>, "return_a", None), Child(<<>>, "raise", None),
          Child(<<>>, "hang", None)}

\* A node whose source cannot be had has no function to run; the function
\* that imports os returns 1.
ChildrenOf(nd) ==
    IF nd.source_code = NoSource THEN {Child(<<>>, "return", None)}
    ELSE IF nd.source_code = ImportsOs THEN {Child(<<>>, "return", IntV(1))}
    ELSE RunChildren

\* node.input_ports in order
PortOrder == <<"a", "b">>

\* The value of the node itself is taken instead of its source's.
KwargOfSelf(es, res, pv, n, port) ==
    IF InConns(es, n, port) # <<>> THEN res[n] ELSE None

\* The preset of the port is taken although the port is connected.
KwargOfPresetFirst(es, res, pv, n, port) ==
    IF port \in DOMAIN pv[n] THEN pv[n][port]
    ELSE IF InConns(es, n, port) # <<>> THEN res[InConns(es, n, port)[1].src]
    ELSE None

\* lines 84-101: the value gathered for one input port: the result of the
\* source of the port's first connection, else the preset in param_values,
\* else None
KwargOf(es, res, pv, n, port) ==
    IF InConns(es, n, port) # <<>> THEN res[InConns(es, n, port)[1].src]
    ELSE IF port \in DOMAIN pv[n] THEN pv[n][port]
    ELSE None

GatherKwargs(es, res, pv, n) ==
    ObjV([i \in 1..Len(PortOrder) |->
            <<<<PortOrder[i]>>, KwargOf(es, res, pv, n, PortOrder[i])>>])

NodeSet == {nodes[i] : i \in 1..Len(nodes)}
\* What is kept of a node's turn: whether the loop reached it, the source
\* resolved for it, whether executor.execute_node was called and with which
\* pre-imports, whether its child hung, and what the turn returned or raised.
Turn(code, executed, imps, hung, out) ==
    [called |-> TRUE, func_code |-> code, executed |-> executed, imports |-> imps,
     hung |-> hung, out |-> out]
NotInvoked ==
    [called |-> FALSE, func_code |-> NoSource, executed |-> FALSE, imports |-> {},
     hung |-> FALSE, out |-> Return(None)]

\* line 218: from utils.sandbox import extract_imports.  The statement runs
\* utils/sandbox.py, whose class body defines
\*     def visit_Exec(self, node: ast.Exec)            (sandbox.py line 207)
\* The ast module of Python 3 has no attribute Exec.  An interpreter that
\* evaluates annotations when the function is defined (CPython up to 3.13)
\* raises AttributeError there, on every import of the module, as a failed
\* import is not kept in sys.modules; one that evaluates them on demand
\* (CPython 3.14) imports the module.
import_sandbox(lazy) ==
    IF lazy THEN Return(None)
    ELSE Raise(Err("AttributeError", "module_ast_has_no_attribute_Exec", <<>>, 0))

\* lines 217-228: the imports are extracted and the invoker called
ExtractAndInvoke(code, kw, ch, lazy) ==
    IF ~import_sandbox(lazy).ok
    THEN Turn(code, FALSE, {}, FALSE, import_sandbox(lazy))
    ELSE Eval(LAMBDA inv : Turn(code, TRUE, extract_imports(code),
                                inv.spawned /\ inv.run.timed_out, inv.out),
              Invocation(code, kw, extract_imports(code), NodeTimeout, ch))

\* lines 104-250 for one node: the source is resolved and the snippet run.
RunNode(nd, kw, ch, lazy) ==
    Eval(LAMBDA src :
           IF ~src.ok THEN Turn(NoSource, FALSE, {}, FALSE, src)
           ELSE ExtractAndInvoke(src.val, kw, ch, lazy),
         ResolveSource(nd))

InvokeIdle ==
    /\ func_code = <<>> /\ args = ObjV(<<>>) /\ imports = {} /\ timeout = 0
    /\ child = Child(<<>>, "return", None) /\ script = Raise(NoErr)
    /\ script_path = "none" /\ spawned = 0 /\ unlink_calls = 0 /\ completed = NoRun
    /\ outcome = Raise(NoErr) /\ previous = Raise(NoErr) /\ calls = 0 /\ ipc = "off"
ParseIdle == stdout = <<>> /\ parsed = Raise(NoErr) /\ ppc = "off"
NoCheckResult == [is_safe |-> FALSE, errors |-> <<>>, warnings |-> <<>>, imports |-> <<>>]
CheckIdle ==
    /\ snippet = <<>> /\ allowed_modules = {}
    /\ check_result = NoCheckResult /\ cpc = "off"
NoEnv == [k |-> "none", v |-> 0]
NoExecutor == [id |-> 0, python_exe |-> "", site_packages |-> ""]
NotCalled == Raise(NoErr)
RuntimeIdle ==
    /\ environ = NoEnv /\ disk = <<>> /\ _executor = NoExecutor
    /\ constructions = 0 /\ resolved_since_reset = 0 /\ cached_before = NoExecutor
    /\ found = NotCalled /\ got = NotCalled /\ rpc = "off"
PipIdle ==
    /\ pip_op = "none" /\ pip_stat = "exists" /\ pip_run = [kind |-> "none"]
    /\ pip_result = NotCalled /\ installed = {} /\ manifest = <<>> /\ pipc = "off"
\* param_values of a node without a preset
NoPresets == [port \in {} |-> None]
UiIdle == param_values = [n \in NodeSet |-> NoPresets] /\ stop_at = 0
RunIdle == frames = <<>> /\ run_no = 0
PortIdle == connections = <<>> /\ conn_ends = <<>>
LibIdle ==
    /\ NODE_LIBRARY_CATEGORIZED = <<>> /\ LOCAL_NODE_LIBRARY = {}
    /\ CUSTOM_CATEGORIES = <<>> /\ lpc = "off"
EditIdle ==
    /\ scene_nodes = [n \in {} |-> "none"] /\ scene_conns = <<>>
    /\ signature = <<>> /\ epc = "off"
RestIdle ==
    /\ lazy_annotations = TRUE /\ CheckIdle /\ RuntimeIdle /\ PipIdle
    /\ UiIdle /\ EditIdle /\ RunIdle /\ PortIdle /\ LibIdle

\* Only the status is reset; the results of the last run stay.
ResetStatusOnly ==
    /\ status' = [n \in NodeSet |-> STATUS_IDLE]
    /\ error_message' = [n \in NodeSet |-> <<>>]
    /\ UNCHANGED result

\* lines 62-65: node.result = None; node.reset_status()
ResetNodes ==
    /\ result' = [n \in NodeSet |-> None]
    /\ status' = [n \in NodeSet |-> STATUS_IDLE]
    /\ error_message' = [n \in NodeSet |-> <<>>]

\* The result is stored but the node is left in the running state.
OnNodeSuccessStillRunning(n, val) ==
    /\ result' = [result EXCEPT ![n] = val]
    /\ UNCHANGED <<status, error_message, has_error>>

\* lines 222-231: the result is stored and the node set to success
OnNodeSuccess(n, val) ==
    /\ result' = [result EXCEPT ![n] = val]
    /\ status' = [status EXCEPT ![n] = STATUS_SUCCESS]
    /\ error_message' = [error_message EXCEPT ![n] = <<>>]
    /\ UNCHANGED has_error

\* The error status is set without the message.
OnNodeErrorSilent(n, e) ==
    /\ status' = [status EXCEPT ![n] = STATUS_ERROR]
    /\ error_message' = [error_message EXCEPT ![n] = <<>>]
    /\ has_error' = TRUE
    /\ UNCHANGED result

\* The error is shown on the node but not counted for the run.
OnNodeErrorUncounted(n, e) ==
    /\ status' = [status EXCEPT ![n] = STATUS_ERROR]
    /\ error_message' = [error_message EXCEPT ![n] = Message(e)]
    /\ UNCHANGED <<has_error, result>>

\* The failed node keeps the text of its error as its result.
OnNodeErrorStoresMessage(n, e) ==
    /\ status' = [status EXCEPT ![n] = STATUS_ERROR]
    /\ error_message' = [error_message EXCEPT ![n] = Message(e)]
    /\ has_error' = TRUE
    /\ result' = [result EXCEPT ![n] = StrV(Message(e))]

\* lines 240-250: the except branch of one node
OnNodeError(n, e) ==
    /\ status' = [status EXCEPT ![n] = STATUS_ERROR]
    /\ error_message' = [error_message EXCEPT ![n] = Message(e)]
    /\ has_error' = TRUE
    /\ UNCHANGED result

\* lines 58-71: the call, the reset of every node and the sort
ExecuteGraphStart ==
    /\ pc \in {"idle", "done"}
    /\ \E e \in BOOLEAN : executor' = e
    /\ IF nodes = <<>>
       THEN /\ ret' = "False" /\ pc' = "done"
            /\ UNCHANGED <<status, error_message, result, sorted_nodes, idx,
                           has_error, kwargs, invoked>>
       ELSE /\ ResetNodes
            /\ sorted_nodes' = topological_sort(nodes, edges)
            /\ idx' = 1
            /\ has_error' = FALSE
            /\ kwargs' = [n \in NodeSet |-> ObjV(<<>>)]
            /\ invoked' = [n \in NodeSet |-> NotInvoked]
            /\ ret' = "none" /\ pc' = "loop"
    /\ stop_at' = 0
    /\ UNCHANGED <<nodes, edges, invokeVars, parseVars, lazy_annotations, checkVars,
                   runtimeVars, pipVars, param_values, editVars, runVars, portVars, libVars>>

\* lines 75-81: the next node of the order is set running and the UI
\* processes its events
NodeBegin ==
    /\ pc = "loop" /\ idx <= Len(sorted_nodes)
    /\ status' = [status EXCEPT ![sorted_nodes[idx]] = STATUS_RUNNING]
    /\ error_message' = [error_message EXCEPT ![sorted_nodes[idx]] = <<>>]
    /\ pc' = "running"
    /\ UNCHANGED <<nodes, edges, executor, result, sorted_nodes, idx, has_error,
                   kwargs, invoked, ret, invokeVars, parseVars, restVars>>

\* lines 84-105 and 260-264: without an executor the RuntimeError leaves the
\* loop and execute_graph returns False
ExecutorMissing ==
    /\ pc = "running" /\ ~executor
    /\ kwargs' = [kwargs EXCEPT ![sorted_nodes[idx]] =
                     GatherKwargs(edges, result, param_values, sorted_nodes[idx])]
    /\ ret' = "False" /\ pc' = "done"
    /\ UNCHANGED <<nodes, edges, executor, status, error_message, result,
                   sorted_nodes, idx, has_error, invoked, invokeVars, parseVars, restVars>>

\* lines 84-250: the arguments are gathered and the node is executed
NodeExecute ==
    /\ pc = "running" /\ executor
    /\ \E nd \in NodeDefs : \E ch \in ChildrenOf(nd) :
         \E kw \in {GatherKwargs(edges, result, param_values, sorted_nodes[idx])} :
           \E r \in {RunNode(nd, kw, ch, lazy_annotations)} :
             /\ kwargs' = [kwargs EXCEPT ![sorted_nodes[idx]] = kw]
             /\ invoked' = [invoked EXCEPT ![sorted_nodes[idx]] = r]
             /\ IF r.out.ok
                THEN OnNodeSuccess(sorted_nodes[idx], r.out.val)
                ELSE OnNodeError(sorted_nodes[idx], r.out.err)
    /\ idx' = idx + 1
    /\ pc' = "loop"
    /\ UNCHANGED <<nodes, edges, executor, sorted_nodes, ret, invokeVars, parseVars, restVars>>

\* lines 252-258: return not has_error
ExecuteGraphReturn ==
    /\ pc = "loop" /\ idx > Len(sorted_nodes)
    /\ ret' = IF has_error THEN "False" ELSE "True"
    /\ pc' = "done"
    /\ UNCHANGED <<nodes, edges, executor, status, error_message, result,
                   sorted_nodes, idx, has_error, kwargs, invoked, invokeVars, parseVars, restVars>>

\* The scene before a run: every node idle, as it was constructed.
InitGraph(g) ==
    /\ nodes = g.nodes /\ edges = g.edges
    /\ executor = FALSE
    /\ status = [n \in {g.nodes[i] : i \in 1..Len(g.nodes)} |-> STATUS_IDLE]
    /\ error_message = [n \in {g.nodes[i] : i \in 1..Len(g.nodes)} |-> <<>>]
    /\ result = [n \in {g.nodes[i] : i \in 1..Len(g.nodes)} |-> None]
    /\ sorted_nodes = <<>> /\ idx = 1 /\ has_error = FALSE
    /\ kwargs = [n \in {g.nodes[i] : i \in 1..Len(g.nodes)} |-> ObjV(<<>>)]
    /\ invoked = [n \in {g.nodes[i] : i \in 1..Len(g.nodes)} |-> NotInvoked]
    /\ ret = "none" /\ pc = "idle"

Init ==
    /\ \E g \in SizedGraphs(MaxGraphSize) \cup Scenarios : InitGraph(g)
    /\ lazy_annotations \in BOOLEAN
    /\ InvokeIdle /\ ParseIdle /\ CheckIdle /\ RuntimeIdle /\ PipIdle
    /\ UiIdle /\ EditIdle /\ RunIdle /\ PortIdle /\ LibIdle

Next ==
    \/ ExecuteGraphStart
    \/ NodeBegin
    \/ ExecutorMissing
    \/ NodeExecute
    \/ ExecuteGraphReturn

Spec == Init /\ [][Next]_vars

----------------------------------------------------------------------------
(* topological_sort on its own                                             *)

Sort ==
    /\ pc = "idle"
    /\ sorted_nodes' = topological_sort(nodes, edges)
    /\ pc' = "done"
    /\ UNCHANGED <<nodes, edges, executor, status, error_message, result, idx,
                   has_error, kwargs, invoked, ret, invokeVars, parseVars, restVars>>

InitSort ==
    /\ \E g \in AllGraphs(SortMaxNodes, SortMaxEdges) \cup Scenarios \cup {SharedPortChain} :
          InitGraph(g)
    /\ InvokeIdle /\ ParseIdle /\ RestIdle

NextSort == Sort

SpecSort == InitSort /\ [][NextSort]_vars

----------------------------------------------------------------------------
(* execute_node, step by step                                              *)

Snippets ==
    {OneFunction, TwoFunctions,
     <<Line("stmt", "")>>,
     <<Line("def", "f"), Line("nested", "g"), Line("stmt", "")>>,
     <<Line("unidef", "u"), Line("stmt", ""), Line("def", "g"), Line("stmt", "")>>,
     <<Line("asyncdef", "h"), Line("stmt", ""), Line("def", "g"), Line("stmt", "")>>,
     <<Line("stmt", ""), Line("strdef", "s"), Line("stmt", "")>>,
     <<Line("def", "f"), Line("bad", "")>>,
     <<Line("def", "f"), Line("cont", "")>>}

\* Strings of up to k characters among x, the two quotes, the backslash and
\* the line break
StrChars == {"x", "SQ", "DQ", "BS", "NL"}
Strings(k) == UNION {[1..m -> StrChars] : m \in 0..k}

BaseArgs == ObjV(<<Pair("a", IntV(1)), Pair("b", ListV(<<IntV(1), IntV(2)>>))>>)
ArgMaps ==
    {BaseArgs, ObjV(<<>>), ObjV(<<Pair("a", ObjV(<<Pair("n", None)>>))>>)}
    \cup {ObjV(<<Pair("a", StrV(str))>>) : str \in Strings(MaxStrLen)}

\* What the snippet prints before it returns: nothing, a plain line, a line
\* that is JSON with a success field, a marker, a whole marker block.
SpoofLine == json_dumps(ObjV(<<Pair("success", BoolV(TRUE)), Pair("result", IntV(9))>>))
PrintTexts ==
    {<<>>, <<"x", "NL">>, SpoofLine \o <<"NL">>, <<"S", "NL">>, <<"E", "NL">>,
     ResultBlock(IntV(9))}

InvokeChildren ==
    {[Child(prints, end, IntV(1)) EXCEPT !.rc = rc] :
        prints \in PrintTexts, end \in {"return", "return_args", "raise", "hang", "exit"},
        rc \in {0, 1}}

\* What a snippet that ends the process itself has written to stderr: nothing,
\* a plain line, error blocks with an empty diagnostic, without one, with an
\* empty and with a non-object payload, markers that frame nothing, and an
\* interpreter's own traceback.
MarkerBlock(payload) == <<"ES", "NL">> \o payload \o <<"NL", "EE", "NL">>
RawTraceback == <<"Traceback", "NL", "x", "NL", "ValueError:", "SP", "boom", "NL">>
ErrTexts ==
    {<<>>, <<"x", "NL">>,
     ErrorBlock(<<"boom">>, <<>>), ErrorBlock(<<>>, <<>>),
     ErrorBlock(<<"boom">>, <<"Traceback", "SP", "tb">>),
     MarkerBlock(json_dumps(ObjV(<<Pair("error", StrV(<<"e">>))>>))),
     MarkerBlock(json_dumps(ObjV(<<>>))),
     MarkerBlock(json_dumps(ListV(<<IntV(1)>>))),
     <<"EE", "NL", "ES", "NL">>,
     <<"ES", "NL", "ValueError:", "SP", "boom", "NL">>,
     RawTraceback,
     <<"NameError:", "SP", "x", "NL">> \o RawTraceback}

FailingChildren ==
    {[Child(prints, "exit", None) EXCEPT !.rc = rc, !.errprints = e] :
        prints \in {<<>>, <<"x", "NL">>, <<"ES", "NL">>}, e \in ErrTexts, rc \in {1, 2}}
    \cup {Child(<<"ES", "NL">>, "raise", None)}

Timeouts == {5, NodeTimeout}

\* a snippet that imports a module the runtime does not have
ImportsNumpy == <<Line("def", "f"), ImportLine("fimport", <<"numpy">>, 0), Line("stmt", "")>>

\* The calls made: every snippet with every child, the one-function snippet
\* with every argument map and with every failing child, and the snippets
\* with an import, pre-imported as the scheduler asks for it.
InvokeInputs ==
    {[code |-> c, kw |-> BaseArgs, imps |-> {}, ch |-> ch] :
        c \in Snippets, ch \in InvokeChildren}
    \cup {[code |-> OneFunction, kw |-> a, imps |-> {}, ch |-> Child(<<>>, end, IntV(1))] :
            a \in ArgMaps, end \in {"return", "return_args"}}
    \cup {[code |-> OneFunction, kw |-> BaseArgs, imps |-> {}, ch |-> ch] :
            ch \in FailingChildren}
    \cup {[code |-> c, kw |-> BaseArgs, imps |-> extract_imports(c),
           ch |-> Child(<<>>, "return", IntV(1))] : c \in {ImportsOs, ImportsNumpy}}

NoOutcome == Raise(NoErr)

\* line 126: script = self._build_execution_script(...); an exception
\* leaves execute_node
BuildScript ==
    /\ ipc = "call"
    /\ \E built \in {_build_execution_script(func_code, args, imports)} :
         /\ script' = built
         /\ IF built.ok THEN ipc' = "built" /\ UNCHANGED outcome
            ELSE ipc' = "returned" /\ outcome' = Raise(built.err)
    /\ UNCHANGED <<func_code, args, imports, timeout, child, script_path, spawned,
                   unlink_calls, completed, previous, calls, schedVars, parseVars,
                   restVars>>

\* lines 129-133: the script is written to a temporary file
WriteScript ==
    /\ ipc = "built"
    /\ script_path' = "written"
    /\ ipc' = "written"
    /\ UNCHANGED <<func_code, args, imports, timeout, child, script, spawned,
                   unlink_calls, completed, outcome, previous, calls, schedVars,
                   parseVars, restVars>>

\* lines 129-133: the temporary file is created, but writing the script to
\* it fails (no space left); the with statement is outside the try, so the
\* OSError leaves execute_node and the file stays
WriteScriptFails ==
    /\ ipc = "built"
    /\ script_path' = "created"
    /\ outcome' = Raise(Err("OSError", "write_failed", <<>>, 0))
    /\ ipc' = "returned"
    /\ UNCHANGED <<func_code, args, imports, timeout, child, script, spawned,
                   unlink_calls, completed, previous, calls, schedVars, parseVars,
                   restVars>>

\* One outcome of the try block skips the finally block.
AfterTryOnSuccessOnly(out) == IF out.ok THEN "finally" ELSE "returned"

\* lines 135-159: whatever the try block returned or raised, the finally
\* block runs next
AfterTry(out) == "finally"

\* lines 137-145: subprocess.run
RunChild ==
    /\ ipc = "written"
    /\ spawned' = spawned + 1
    /\ completed' = subprocess_run(script.val, child)
    /\ ipc' = "ran"
    /\ UNCHANGED <<func_code, args, imports, timeout, child, script, script_path,
                   unlink_calls, outcome, previous, calls, schedVars, parseVars,
                   restVars>>

\* lines 137-145: subprocess.run cannot start the interpreter (the file
\* python_exe is gone); the OSError is none of the exceptions handled
RunChildFails ==
    /\ ipc = "written"
    /\ outcome' = Raise(Err("OSError", "launch_failed", <<>>, 0))
    /\ ipc' = AfterTry(outcome')
    /\ UNCHANGED <<func_code, args, imports, timeout, child, script, script_path,
                   spawned, unlink_calls, completed, previous, calls, schedVars,
                   parseVars, restVars>>

\* lines 147-158: the result is parsed, or the failure raised
FinishRun ==
    /\ ipc = "ran"
    /\ outcome' = AfterRun(completed, timeout)
    /\ ipc' = AfterTry(outcome')
    /\ UNCHANGED <<func_code, args, imports, timeout, child, script, script_path,
                   spawned, unlink_calls, completed, previous, calls, schedVars,
                   parseVars, restVars>>

\* lines 159-164: os.unlink(script_path)
Unlink ==
    /\ ipc = "finally"
    /\ unlink_calls' = unlink_calls + 1
    /\ script_path' = "deleted"
    /\ ipc' = "returned"
    /\ UNCHANGED <<func_code, args, imports, timeout, child, script, spawned,
                   completed, outcome, previous, calls, schedVars, parseVars,
                   restVars>>

\* lines 161-164: os.unlink raises and the exception is swallowed
UnlinkFails ==
    /\ ipc = "finally"
    /\ unlink_calls' = unlink_calls + 1
    /\ ipc' = "returned"
    /\ UNCHANGED <<func_code, args, imports, timeout, child, script, script_path,
                   spawned, completed, outcome, previous, calls, schedVars,
                   parseVars, restVars>>

\* The same call is made once more, with unchanged inputs.
CallAgain ==
    /\ ipc = "returned" /\ calls = 1
    /\ previous' = outcome
    /\ calls' = 2
    /\ script' = NoOutcome /\ script_path' = "none" /\ spawned' = 0
    /\ unlink_calls' = 0
    /\ completed' = NoRun /\ outcome' = NoOutcome
    /\ ipc' = "call"
    /\ UNCHANGED <<func_code, args, imports, timeout, child, schedVars, parseVars,
                   restVars>>

InitInvoke ==
    /\ InitGraph(Graph(0, <<>>))
    /\ ParseIdle /\ RestIdle
    /\ \E in \in InvokeInputs, limit \in Timeouts :
         /\ func_code = in.code /\ args = in.kw /\ imports = in.imps
         /\ child = in.ch /\ timeout = limit
    /\ script = NoOutcome /\ script_path = "none" /\ spawned = 0 /\ unlink_calls = 0
    /\ completed = NoRun /\ outcome = NoOutcome /\ previous = NoOutcome
    /\ calls = 1 /\ ipc = "call"

NextInvoke ==
    \/ BuildScript
    \/ WriteScript
    \/ WriteScriptFails
    \/ RunChild
    \/ RunChildFails
    \/ FinishRun
    \/ Unlink
    \/ UnlinkFails
    \/ CallAgain

SpecInvoke == InitInvoke /\ [][NextInvoke]_vars

----------------------------------------------------------------------------
(* _parse_result on its own                                                *)

SuccessLine == json_dumps(ObjV(<<Pair("success", BoolV(TRUE)), Pair("result", IntV(1))>>))
FailureLine == json_dumps(ObjV(<<Pair("success", BoolV(FALSE)), Pair("error", StrV(<<"x">>))>>))

\* The lines a stdout is made of: the markers, plain text, an empty line, a
\* number, and JSON objects with and without a success field.
StdoutLineKinds ==
    {<<"S">>, <<"E">>, <<"x">>, <<>>, <<"1">>, SuccessLine, FailureLine,
     json_dumps(ObjV(<<Pair("result", IntV(2))>>))}

Stdouts(k) == {JoinLines(ls) : ls \in UNION {[1..m -> StdoutLineKinds] : m \in 0..k}}

ParseResult ==
    /\ ppc = "call"
    /\ parsed' = _parse_result(stdout)
    /\ ppc' = "done"
    /\ UNCHANGED <<stdout, schedVars, invokeVars, restVars>>

InitParse ==
    /\ InitGraph(Graph(0, <<>>))
    /\ InvokeIdle /\ RestIdle
    /\ stdout \in Stdouts(MaxStdoutLines)
    /\ parsed = NoOutcome /\ ppc = "call"

NextParse == ParseResult

SpecParse == InitParse /\ [][NextParse]_vars

----------------------------------------------------------------------------
(* utils/sandbox.py: SandboxChecker.check_code and check_code_safety        *)

FORBIDDEN_MODULES ==
    {"os", "sys", "subprocess", "socket", "ctypes", "mmap",
     "urllib", "http", "ftplib", "smtplib", "telnetlib",
     "pickle", "cPickle", "marshal", "shelve",
     "multiprocessing", "threading", "_thread",
     "imp", "importlib", "runpy", "modulefinder",
     "site", "builtins", "__builtin__"}

WARNING_MODULES ==
    {"requests", "urllib3", "httpx", "pymongo", "psycopg2", "mysql",
     "paramiko", "fabric", "pyautogui"}

FORBIDDEN_BUILTINS ==
    {"eval", "exec", "compile", "__import__", "open", "input", "raw_input",
     "exit", "quit", "help", "copyright", "credits", "license"}

ALLOWED_MODULES ==
    {"abc", "array", "bisect", "collections", "copy", "dataclasses",
     "enum", "functools", "heapq", "itertools", "json", "math",
     "numbers", "operator", "pprint", "random", "re", "statistics",
     "string", "time", "datetime", "decimal", "fractions", "typing",
     "uuid", "hashlib", "base64", "binascii", "struct",
     "csv", "html", "xml", "xml.etree.ElementTree",
     "difflib", "graphlib", "zoneinfo"}

\* An entry of the errors or of the warnings list: which message, and the
\* module or function it names.
Finding(kind, what) == [kind |-> kind, what |-> what]

\* What the visit of one statement adds to the three lists.
Found(errs, warns, imps) == [errors |-> errs, warnings |-> warns, imports |-> imps]
Nothing == Found(<<>>, <<>>, <<>>)

\* The whole dotted name is looked up, and no dotted name is on the lists.
DottedName(module) == IF Len(module) = 1 THEN module[1] ELSE "dotted"

\* alias.name.split('.')[0] and node.module.split('.')[0]
TopName(module) == module[1]

\* A module that is not pre-approved is an error.
_check_module_strict(module_name, allowed) ==
    IF module_name \in FORBIDDEN_MODULES \/ module_name \notin allowed
    THEN Found(<<Finding("forbidden_module", module_name)>>, <<>>, <<>>)
    ELSE Found(<<>>, <<>>, <<<<module_name>>>>)

\* The allowed modules are looked up before the block-list.
_check_module_allowed_first(module_name, allowed) ==
    IF module_name \in allowed
    THEN Found(<<>>,
               IF module_name \in WARNING_MODULES
               THEN <<Finding("caution", module_name)>> ELSE <<>>,
               <<<<module_name>>>>)
    ELSE IF module_name \in FORBIDDEN_MODULES
    THEN Found(<<Finding("forbidden_module", module_name)>>, <<>>, <<>>)
    ELSE Found(<<>>,
               (IF module_name \in WARNING_MODULES
                THEN <<Finding("caution", module_name)>> ELSE <<>>)
               \o <<Finding("not_allowed", module_name)>>,
               <<<<module_name>>>>)

\* lines 164-180
_check_module(module_name, allowed) ==
    IF module_name \in FORBIDDEN_MODULES
    THEN Found(<<Finding("forbidden_module", module_name)>>, <<>>, <<>>)
    ELSE Found(<<>>,
               (IF module_name \in WARNING_MODULES
                THEN <<Finding("caution", module_name)>> ELSE <<>>)
               \o (IF module_name \notin allowed
                   THEN <<Finding("not_allowed", module_name)>> ELSE <<>>),
               <<<<module_name>>>>)

\* lines 182-205: visit_Expr (for a call that is a statement of its own),
\* then visit_Call
VisitCall(name, is_stmt) ==
    Found((IF is_stmt /\ name \in {"eval", "exec"}
           THEN <<Finding("direct_call", name)>> ELSE <<>>)
          \o (IF name \in FORBIDDEN_BUILTINS
              THEN <<Finding("forbidden_call", name)>> ELSE <<>>),
          IF name = "open" THEN <<Finding("open", name)>> ELSE <<>>,
          <<>>)

\* lines 146-162: visit_Import and visit_ImportFrom; a from-import without
\* a module name (from . import x) is not looked at, a from-import with one
\* is, whatever its level, and records module.name
VisitImport(line, allowed) ==
    IF line.module = <<>> THEN Nothing
    ELSE Eval(LAMBDA f : IF line.t = "from"
                         THEN [f EXCEPT !.imports = @ \o <<line.module \o <<"x">>>>]
                         ELSE f,
              _check_module(TopName(line.module), allowed))

VisitLine(line, allowed) ==
    CASE line.t \in {"import", "fimport", "from"} -> VisitImport(line, allowed)
      [] line.t = "call" -> VisitCall(line.name, FALSE)
      [] line.t = "callstmt" -> VisitCall(line.name, TRUE)
      [] OTHER -> Nothing

\* self.visit(tree): the statements in the order of the source
RECURSIVE Visit(_, _, _)
Visit(code, allowed, acc) ==
    IF code = <<>> THEN acc
    ELSE Eval(LAMBDA f : Visit(Tail(code), allowed,
                               Found(acc.errors \o f.errors,
                                     acc.warnings \o f.warnings,
                                     acc.imports \o f.imports)),
              VisitLine(Head(code), allowed))

\* lines 124: [node for node in ast.walk(tree) if isinstance(node,
\* ast.FunctionDef)]: every def of the tree, at any depth; an async def is
\* an AsyncFunctionDef, a def inside a string literal no node at all
WalkFunctionDefs(code) ==
    SelectSeq(code, LAMBDA l : l.t \in {"def", "unidef", "nested"})

\* lines 125-129
FunctionCountErrors(n) ==
    (IF n > 1 THEN <<Finding("too_many_functions", "")>> ELSE <<>>)
    \o (IF n = 0 THEN <<Finding("no_function", "")>> ELSE <<>>)

\* Warnings make the snippet unsafe as errors do.
ResultBlockedByWarnings(errs, warns, imps) ==
    [is_safe |-> errs = <<>> /\ warns = <<>>,
     errors |-> errs, warnings |-> warns, imports |-> imps]

\* lines 139-144
SecurityCheckResult(errs, warns, imps) ==
    [is_safe |-> Len(errs) = 0, errors |-> errs, warnings |-> warns, imports |-> imps]

\* lines 106-144, on a checker made with the extra modules (lines 92-104)
check_code(code, extra) ==
    IF HasSyntaxError(code)
    THEN SecurityCheckResult(<<Finding("syntax_error", "")>>, <<>>, <<>>)
    ELSE Eval(LAMBDA f : SecurityCheckResult(
                            FunctionCountErrors(Len(WalkFunctionDefs(code))) \o f.errors,
                            f.warnings, f.imports),
              Visit(code, ALLOWED_MODULES \cup extra, Nothing))

\* lines 213-232
check_code_safety(code, extra) == check_code(code, extra)

\* The statements a checked function's body is made of.
BodyLines ==
    {ImportLine("fimport", m, 0) :
        m \in {<<"os">>, <<"os", "path">>, <<"json">>, <<"requests">>, <<"numpy">>,
               <<"xml", "etree", "ElementTree">>}}
    \cup {ImportLine("from", <<"os">>, 0), ImportLine("from", <<>>, 1),
          ImportLine("from", <<"os">>, 1), ImportLine("from", <<"json">>, 0)}
    \cup {Line("call", "eval"), Line("callstmt", "eval"), Line("call", "open"),
          Line("call", "len"), Line("nested", "g"), Line("stmt", "")}

\* The snippets checked: one function with every body of up to
\* MaxBodyLines statements, the snippets given to the invoker, and imports
\* at the top level.
CheckSnippets ==
    {<<Line("def", "f")>> \o body :
        body \in UNION {[1..m -> BodyLines] : m \in 0..MaxBodyLines}}
    \cup Snippets
    \cup {<<ImportLine("import", <<"os">>, 0)>> \o OneFunction,
          <<ImportLine("import", <<"requests">>, 0)>> \o OneFunction,
          <<ImportLine("import", <<"os">>, 0)>>}

ExtraModules == {{}, {"requests"}, {"numpy"}, {"os"}}

\* The caller's  from utils.sandbox import check_code_safety
ImportSandbox ==
    /\ cpc = "start"
    /\ cpc' = IF import_sandbox(lazy_annotations).ok THEN "loaded" ELSE "import_failed"
    /\ UNCHANGED <<snippet, allowed_modules, check_result, lazy_annotations,
                   schedVars, invokeVars, parseVars, runtimeVars, pipVars,
                   uiVars, editVars, runVars, portVars, libVars>>

\* check_code_safety(snippet, allowed_modules)
CheckCodeSafety ==
    /\ cpc = "loaded"
    /\ check_result' = check_code_safety(snippet, allowed_modules)
    /\ cpc' = "done"
    /\ UNCHANGED <<snippet, allowed_modules, lazy_annotations,
                   schedVars, invokeVars, parseVars, runtimeVars, pipVars,
                   uiVars, editVars, runVars, portVars, libVars>>

InitCheck ==
    /\ InitGraph(Graph(0, <<>>))
    /\ InvokeIdle /\ ParseIdle
    /\ lazy_annotations \in BOOLEAN
    /\ snippet \in CheckSnippets
    /\ allowed_modules \in ExtraModules
    /\ check_result = NoCheckResult /\ cpc = "start"
    /\ RuntimeIdle /\ PipIdle /\ UiIdle /\ EditIdle /\ RunIdle /\ PortIdle /\ LibIdle

NextCheck ==
    \/ ImportSandbox
    \/ CheckCodeSafety

SpecCheck == InitCheck /\ [][NextCheck]_vars

----------------------------------------------------------------------------
(* The embedded runtime: _find_embedded_python, the constructor and the     *)
(* module-level get_executor / reset_executor                               *)

\* number of executor objects a behaviour may build
MaxConstructions == 2

ExeCandidate == "exe_dir/python_embedded/python.exe"
ProjectCandidate == "project_dir/python_embedded/python.exe"
EnvAbsolute == "D:/py/python.exe"
EnvRelative == "py/python.exe"
Paths == {ExeCandidate, ProjectCandidate, EnvAbsolute, EnvRelative}
EnvValues == {NoEnv, StrV(""), StrV(EnvAbsolute), StrV(EnvRelative)}

\* what can be at a path
PathKinds == {"missing", "file", "dir"}
Disks == [Paths -> PathKinds]

\* Path(p).exists(): a directory exists as well as a file
exists(d, path) == d[path] # "missing"

\* Path(p).resolve(): a relative path is made absolute from the working directory
resolve(path) == IF path = EnvRelative THEN "cwd/" \o path ELSE path

NotFoundError ==
    Err("RuntimeError", "embedded_python_not_found",
        <<"exe_dir/python_embedded", "NODE_PYTHON_EMBEDDED", "project_dir/python_embedded">>, 0)

\* The environment variable is looked at before the two directories.
_find_embedded_python_env_first(env, d) ==
    IF env.k = "str" /\ env.v # "" /\ exists(d, env.v) THEN Return(StrV(resolve(env.v)))
    ELSE IF exists(d, ExeCandidate) THEN Return(StrV(resolve(ExeCandidate)))
    ELSE IF exists(d, ProjectCandidate) THEN Return(StrV(resolve(ProjectCandidate)))
    ELSE Raise(NotFoundError)

_find_embedded_python(env, d) ==
    IF exists(d, ExeCandidate) THEN Return(StrV(resolve(ExeCandidate)))
    ELSE IF env.k = "str" /\ env.v # "" /\ exists(d, env.v)
        THEN Return(StrV(resolve(env.v)))
    ELSE IF exists(d, ProjectCandidate) THEN Return(StrV(resolve(ProjectCandidate)))
    ELSE Raise(NotFoundError)

\* what the search for a site-packages directory next to the interpreter meets:
\* one of the listed directories, or none of them and a mkdir that works or fails
SiteProbes == {"Lib/site-packages", "lib/python3.11/site-packages", "none", "mkdir_fails"}

\* _check_environment, for an interpreter path that exists: the site-packages
\* directory it settles on, or the exception of mkdir
_check_environment(probe) ==
    IF probe = "mkdir_fails" THEN Raise(Err("OSError", "mkdir_failed", <<>>, 0))
    ELSE IF probe = "none" THEN Return(StrV("Lib/site-packages"))
    ELSE Return(StrV(probe))

\* EmbeddedPythonExecutor(): the object built, or the exception of the constructor
EmbeddedPythonExecutor(env, d, probe, id) ==
    LET f == _find_embedded_python(env, d)
        c == _check_environment(probe)
    IN  [found |-> f,
         out |-> IF ~f.ok THEN f
                 ELSE IF ~c.ok THEN c
                 ELSE Return([id |-> id, python_exe |-> f.val.v, site_packages |-> c.val.v])]

\* The global is not looked at: every call builds an executor.
NeedsConstructionAlways(ex) == TRUE

\* if _executor is None
NeedsConstruction(ex) == ex = NoExecutor

\* get_executor(): the new value of the global, what the call gives back, and
\* what the search gave when the call made one
get_executor(ex, env, d, probe, id) ==
    IF NeedsConstruction(ex)
    THEN LET b == EmbeddedPythonExecutor(env, d, probe, id)
         IN  [executor |-> IF b.out.ok THEN b.out.val ELSE ex,
              out |-> b.out, found |-> b.found, built |-> b.out.ok]
    ELSE [executor |-> ex, out |-> Return(ex), found |-> NotCalled, built |-> FALSE]

GetExecutor ==
    /\ rpc # "off"
    /\ NeedsConstruction(_executor) => constructions < MaxConstructions
    /\ \E probe \in SiteProbes :
         \E r \in {get_executor(_executor, environ, disk, probe, constructions + 1)} :
            /\ _executor' = r.executor
            /\ got' = r.out
            /\ found' = r.found
            /\ constructions' = IF r.built THEN constructions + 1 ELSE constructions
            /\ resolved_since_reset' =
                   IF r.built THEN resolved_since_reset + 1 ELSE resolved_since_reset
    /\ cached_before' = _executor
    /\ rpc' = "got"
    /\ UNCHANGED <<environ, disk, schedVars, invokeVars, parseVars,
                   lazy_annotations, checkVars, pipVars,
                   uiVars, editVars, runVars, portVars, libVars>>

\* reset_executor()
ResetExecutor ==
    /\ rpc # "off"
    /\ _executor' = NoExecutor
    /\ resolved_since_reset' = 0
    /\ rpc' = "reset"
    /\ UNCHANGED <<environ, disk, constructions, cached_before, found, got,
                   schedVars, invokeVars, parseVars, lazy_annotations, checkVars, pipVars,
                   uiVars, editVars, runVars, portVars, libVars>>

\* the controller, or the user before it started, sets or clears the variable
SetEnv ==
    /\ rpc # "off"
    /\ \E e \in EnvValues \ {environ} : environ' = e
    /\ rpc' = "changed"
    /\ UNCHANGED <<disk, _executor, constructions, resolved_since_reset, cached_before,
                   found, got, schedVars, invokeVars, parseVars, lazy_annotations,
                   checkVars, pipVars, uiVars, editVars, runVars, portVars, libVars>>

\* a runtime is installed at a path or removed from it
ChangeFile ==
    /\ rpc # "off"
    /\ \E path \in Paths : \E kind \in PathKinds \ {disk[path]} :
          disk' = [disk EXCEPT ![path] = kind]
    /\ rpc' = "changed"
    /\ UNCHANGED <<environ, _executor, constructions, resolved_since_reset,
                   cached_before, found, got, schedVars, invokeVars, parseVars,
                   lazy_annotations, checkVars, pipVars,
                   uiVars, editVars, runVars, portVars, libVars>>

InitRuntime ==
    /\ InitGraph(Graph(0, <<>>))
    /\ InvokeIdle /\ ParseIdle
    /\ lazy_annotations = TRUE /\ CheckIdle /\ PipIdle /\ UiIdle /\ EditIdle /\ RunIdle /\ PortIdle /\ LibIdle
    /\ environ \in EnvValues /\ disk \in Disks
    /\ _executor = NoExecutor
    /\ constructions = 0 /\ resolved_since_reset = 0 /\ cached_before = NoExecutor
    /\ found = NotCalled /\ got = NotCalled /\ rpc = "start"

NextRuntime ==
    \/ GetExecutor
    \/ ResetExecutor
    \/ SetEnv
    \/ ChangeFile

SpecRuntime == InitRuntime /\ [][NextRuntime]_vars

----------------------------------------------------------------------------
(* The package operations: install_package, uninstall_package and          *)
(* install_requirements                                                    *)

PipStdouts == {"", "Successfully_installed", "Requirement_already_satisfied"}
PipStderrs == {"", "ERROR_No_matching_distribution", "WARNING_new_pip_available"}
PipExitCodes == {0, 1, 2}

\* what subprocess.run does for the pip command: the process ends with an
\* exit code, the time limit passes, or the process cannot be launched
PipRuns ==
    {[kind |-> "exit", code |-> c, out |-> o, errtext |-> e] :
        c \in PipExitCodes, o \in PipStdouts, e \in PipStderrs}
    \cup {[kind |-> "TimeoutExpired"], [kind |-> "FileNotFoundError"],
          [kind |-> "PermissionError"]}

\* what Path(requirements_file).exists() does: "error" is an OSError that
\* exists() passes on (a name too long for the file system, a directory
\* that may not be searched)
StatOutcomes == {"exists", "missing", "error"}

\* result.stdout, with a newline and result.stderr when that is not empty
PipOutput(run) ==
    IF run.errtext # "" THEN <<run.out, "\n", run.errtext>> ELSE <<run.out>>

\* return result.returncode == 0, output
PipReturn(run) == Return(<<run.code = 0, PipOutput(run)>>)

install_package(run) ==
    IF run.kind = "exit" THEN PipReturn(run)
    ELSE IF run.kind = "TimeoutExpired" THEN Return(<<FALSE, <<"install_timeout_5_minutes">>>>)
    ELSE Return(<<FALSE, <<"install_failed: ", run.kind>>>>)

uninstall_package(run) ==
    IF run.kind = "exit" THEN PipReturn(run)
    ELSE Return(<<FALSE, <<"uninstall_failed: ", run.kind>>>>)

install_requirements(stat, run) ==
    IF stat = "error" THEN Raise(Err("OSError", "stat_failed", <<>>, 0))
    ELSE IF stat = "missing" THEN Return(<<FALSE, <<"file_does_not_exist: ", "requirements_file">>>>)
    ELSE IF run.kind = "exit" THEN PipReturn(run)
    ELSE IF run.kind = "TimeoutExpired" THEN Return(<<FALSE, <<"install_timeout_10_minutes">>>>)
    ELSE Return(<<FALSE, <<"install_failed: ", run.kind>>>>)

InstallPackage ==
    /\ pipc = "start"
    /\ pip_op' = "install_package"
    /\ pip_result' = install_package(pip_run)
    /\ pipc' = "done"
    /\ UNCHANGED <<pip_stat, pip_run, installed, manifest, schedVars, invokeVars, parseVars,
                   lazy_annotations, checkVars, runtimeVars,
                   uiVars, editVars, runVars, portVars, libVars>>

UninstallPackage ==
    /\ pipc = "start"
    /\ pip_op' = "uninstall_package"
    /\ pip_result' = uninstall_package(pip_run)
    /\ pipc' = "done"
    /\ UNCHANGED <<pip_stat, pip_run, installed, manifest, schedVars, invokeVars, parseVars,
                   lazy_annotations, checkVars, runtimeVars,
                   uiVars, editVars, runVars, portVars, libVars>>

InstallRequirements ==
    /\ pipc = "start"
    /\ pip_op' = "install_requirements"
    /\ pip_result' = install_requirements(pip_stat, pip_run)
    /\ pipc' = "done"
    /\ UNCHANGED <<pip_stat, pip_run, installed, manifest, schedVars, invokeVars, parseVars,
                   lazy_annotations, checkVars, runtimeVars,
                   uiVars, editVars, runVars, portVars, libVars>>

\* The packages that can be installed, in the order pip lists them.  A name
\* is the sequence of its parts, so that one name can begin with another.
Packages ==
    <<<<"Pillow">>, <<"pip">>, <<"pip", "deptree">>, <<"requests">>,
      <<"setuptools">>, <<"setuptools", "-scm">>, <<"wheel">>>>
PackageSet == {Packages[i] : i \in 1..Len(Packages)}
VersionOf(name) == IF name = <<"pip">> THEN "24.0" ELSE "1.0"

\* str.lower() of one part
LowerPart(part) == IF part = "Pillow" THEN "pillow" ELSE part
Lower(text) == [i \in 1..Len(text) |-> LowerPart(text[i])]

\* text.startswith(prefix)
StartsWith(text, prefix) ==
    Len(text) >= Len(prefix) /\ SubSeq(text, 1, Len(prefix)) = prefix

\* the packages in pip's order
InstalledInOrder(pkgs) == SelectSeq(Packages, LAMBDA name : name \in pkgs)

\* stdout of  pip list --format=json , decoded: one object per package
PipListJson(pkgs) ==
    [i \in 1..Len(InstalledInOrder(pkgs)) |->
        [name |-> InstalledInOrder(pkgs)[i], version |-> VersionOf(InstalledInOrder(pkgs)[i])]]

\* stdout of  pip freeze , stripped and split: one line name==version per
\* package, one empty line when there is none
PipFreezeLines(pkgs) ==
    IF pkgs = {} THEN <<<<>>>>
    ELSE [i \in 1..Len(InstalledInOrder(pkgs)) |->
            InstalledInOrder(pkgs)[i] \o <<"==", VersionOf(InstalledInOrder(pkgs)[i])>>]

\* exclude = {'pip', 'setuptools', 'wheel'}
BootstrapPackages == {<<"pip">>, <<"setuptools">>, <<"wheel">>}

\* any(line.lower().startswith(pkg) for pkg in ['pip', 'setuptools', 'wheel'])
DroppedFromExport(line) ==
    \E name \in BootstrapPackages : StartsWith(Lower(line), name)

\* list_installed_packages: the decoded list without the excluded names for
\* exit code 0, the empty list for any other exit code and for any exception
list_installed_packages(run, pkgs) ==
    IF run.kind = "exit" /\ run.code = 0
    THEN Return(SelectSeq(PipListJson(pkgs), LAMBDA pkg : pkg.name \notin BootstrapPackages))
    ELSE Return(<<>>)

\* export_requirements: what it returns and the lines it wrote (written is
\* false when the file was not touched); stat "error" is an open() that fails
export_requirements(run, stat, pkgs) ==
    IF run.kind = "exit" /\ run.code = 0 /\ stat # "error"
    THEN [out |-> Return(BoolV(TRUE)), written |-> TRUE,
          lines |-> SelectSeq(PipFreezeLines(pkgs), LAMBDA line : ~DroppedFromExport(line))]
    ELSE [out |-> Return(BoolV(FALSE)), written |-> FALSE, lines |-> <<>>]

ListInstalledPackages ==
    /\ pipc = "start"
    /\ pip_op' = "list_installed_packages"
    /\ pip_result' = list_installed_packages(pip_run, installed)
    /\ pipc' = "done"
    /\ UNCHANGED <<pip_stat, pip_run, installed, manifest, schedVars, invokeVars,
                   parseVars, lazy_annotations, checkVars, runtimeVars,
                   uiVars, editVars, runVars, portVars, libVars>>

ExportRequirements ==
    /\ pipc = "start"
    /\ pip_op' = "export_requirements"
    /\ \E r \in {export_requirements(pip_run, pip_stat, installed)} :
          /\ pip_result' = r.out
          /\ manifest' = IF r.written THEN r.lines ELSE manifest
    /\ pipc' = "done"
    /\ UNCHANGED <<pip_stat, pip_run, installed, schedVars, invokeVars,
                   parseVars, lazy_annotations, checkVars, runtimeVars,
                   uiVars, editVars, runVars, portVars, libVars>>

InitPip ==
    /\ InitGraph(Graph(0, <<>>))
    /\ InvokeIdle /\ ParseIdle
    /\ lazy_annotations = TRUE /\ CheckIdle /\ RuntimeIdle /\ UiIdle /\ EditIdle /\ RunIdle /\ PortIdle /\ LibIdle
    /\ pip_op = "none" /\ pip_stat \in StatOutcomes /\ pip_run \in PipRuns
    /\ installed \in SUBSET PackageSet /\ manifest = <<>>
    /\ pip_result = NotCalled /\ pipc = "start"

NextPip ==
    \/ InstallPackage
    \/ UninstallPackage
    \/ InstallRequirements
    \/ ListInstalledPackages
    \/ ExportRequirements

SpecPip == InitPip /\ [][NextPip]_vars

----------------------------------------------------------------------------
(* The main window around a run: node presets and the stop action           *)

\* The preset of a port is the default of the parameter in the function's
\* signature (setup_ports) or the value typed in the property panel.
PresetMaps ==
    {NoPresets, [port \in {"a"} |-> IntV(7)], [port \in {"a", "b"} |-> StrV(<<"x">>)]}

\* Small scenes: one node, two nodes apart, and two nodes with one or both
\* ports of the second connected.
WindowGraphs ==
    {Graph(1, <<>>), Graph(2, <<>>), Graph(2, <<Edge(1, 2, "a")>>),
     Graph(2, <<Edge(1, 2, "b")>>), BothPorts}

\* main_window.py lines 726-727, reached from QApplication.processEvents()
\* of graph_executor.py line 81 while a node is running: the click on the
\* stop action, made then or earlier while the window was blocked, is
\* handled.  stop_graph prints a line and changes nothing.
StopGraph ==
    /\ pc = "running" /\ stop_at = 0
    /\ stop_at' = idx
    /\ UNCHANGED <<schedVars, invokeVars, parseVars, lazy_annotations, checkVars,
                   runtimeVars, pipVars, param_values, editVars, runVars, portVars, libVars>>

InitWindow ==
    /\ \E g \in WindowGraphs : InitGraph(g)
    /\ lazy_annotations \in BOOLEAN
    /\ InvokeIdle /\ ParseIdle /\ CheckIdle /\ RuntimeIdle /\ PipIdle /\ EditIdle
    /\ RunIdle /\ PortIdle /\ LibIdle
    /\ param_values \in [NodeSet -> PresetMaps]
    /\ stop_at = 0

NextWindow ==
    \/ ExecuteGraphStart
    \/ NodeBegin
    \/ ExecutorMissing
    \/ NodeExecute
    \/ ExecuteGraphReturn
    \/ StopGraph

SpecWindow == InitWindow /\ [][NextWindow]_vars

----------------------------------------------------------------------------
(* Runs started from the window, one after the other and one inside the    *)
(* other.  run_graph is the slot of the Run action; nothing disables the   *)
(* action while a run is going on, and QApplication.processEvents() of     *)
(* line 81 of execute_graph delivers the events that are waiting.          *)

MaxRuns == 2
MaxDepth == 1

RunGraphs ==
    {Graph(0, <<>>), Graph(1, <<>>), Graph(2, <<Edge(1, 2, "a")>>), BothPorts}

\* The locals of the execute_graph call that waits in processEvents.
Frame == [sorted_nodes |-> sorted_nodes, idx |-> idx, has_error |-> has_error]

\* execute_graph lines 58-71, called with an executor
BeginRun ==
    /\ executor' = TRUE
    /\ IF nodes = <<>>
       THEN /\ ret' = "False" /\ pc' = "done"
            /\ UNCHANGED <<status, error_message, result, sorted_nodes, idx,
                           has_error, kwargs, invoked>>
       ELSE /\ ResetNodes
            /\ sorted_nodes' = topological_sort(nodes, edges)
            /\ idx' = 1
            /\ has_error' = FALSE
            /\ kwargs' = [n \in NodeSet |-> ObjV(<<>>)]
            /\ invoked' = [n \in NodeSet |-> NotInvoked]
            /\ ret' = "none" /\ pc' = "loop"

\* run_graph from the idle window: get_all_nodes, then
\* execute_graph_embedded, which returns False when get_executor raises
\* RuntimeError and calls execute_graph with the executor otherwise
RunGraph ==
    /\ pc \in {"idle", "done"} /\ frames = <<>>
    /\ run_no < MaxRuns
    /\ run_no' = run_no + 1
    /\ \E ok \in BOOLEAN :
         IF ok THEN BeginRun
         ELSE /\ ret' = "False" /\ pc' = "done"
              /\ UNCHANGED <<executor, status, error_message, result, sorted_nodes,
                             idx, has_error, kwargs, invoked>>
    /\ UNCHANGED <<nodes, edges, frames, invokeVars, parseVars, lazy_annotations,
                   checkVars, runtimeVars, pipVars, uiVars, editVars, portVars, libVars>>

\* run_graph called from processEvents while a node of a run is set to
\* running: the run waits, in the frame kept here, until the new call of
\* execute_graph returns.  get_executor gives the executor the waiting run
\* was given.
RunGraphDuringRun ==
    /\ pc = "running" /\ Len(frames) < MaxDepth
    /\ run_no < MaxRuns
    /\ run_no' = run_no + 1
    /\ frames' = Append(frames, Frame)
    /\ BeginRun
    /\ UNCHANGED <<nodes, edges, invokeVars, parseVars, lazy_annotations,
                   checkVars, runtimeVars, pipVars, uiVars, editVars, portVars, libVars>>

\* The inner call has returned: processEvents returns and the waiting run
\* goes on after line 81, with its own locals and whatever the inner run
\* left in the nodes
ResumeRun ==
    /\ pc = "done" /\ frames # <<>>
    /\ sorted_nodes' = frames[Len(frames)].sorted_nodes
    /\ idx' = frames[Len(frames)].idx
    /\ has_error' = frames[Len(frames)].has_error
    /\ frames' = SubSeq(frames, 1, Len(frames) - 1)
    /\ ret' = "none" /\ pc' = "running"
    /\ UNCHANGED <<nodes, edges, executor, status, error_message, result, kwargs,
                   invoked, run_no, invokeVars, parseVars, lazy_annotations,
                   checkVars, runtimeVars, pipVars, uiVars, editVars, portVars, libVars>>

InitRuns ==
    /\ \E g \in RunGraphs : InitGraph(g)
    /\ lazy_annotations \in BOOLEAN
    /\ InvokeIdle /\ ParseIdle /\ CheckIdle /\ RuntimeIdle /\ PipIdle
    /\ UiIdle /\ EditIdle /\ RunIdle /\ PortIdle /\ LibIdle

\* One run after the other.
NextRuns ==
    \/ RunGraph
    \/ NodeBegin
    \/ NodeExecute
    \/ ExecuteGraphReturn

SpecRuns == InitRuns /\ [][NextRuns]_vars

\* The Run action can be triggered at any time.
NextReentry ==
    \/ RunGraph
    \/ RunGraphDuringRun
    \/ NodeBegin
    \/ NodeExecute
    \/ ExecuteGraphReturn
    \/ ResumeRun

SpecReentry == InitRuns /\ [][NextReentry]_vars

----------------------------------------------------------------------------
(* The editor.  scene_conns holds the finalized connections that are in    *)
(* the list of an input port of a node of the scene: src is the node of    *)
(* the output port they start at, dst and port name the input port.  The   *)
(* library has a built-in node add(a, b) and one custom node, whose        *)
(* definition the user edits.                                              *)

EditorNodeIds == {1, 2}
EditorMaxConns == 2
Definitions == [params : SUBSET PortNames, returns : BOOLEAN]
BuiltIn == [params |-> PortNames, returns |-> TRUE]

\* LOCAL_NODE_LIBRARY[name]
InLibrary(name) == name \in {"add", "custom"}
DefinitionOf(name, sig) == IF name = "custom" THEN sig ELSE BuiltIn

\* SimpleNodeItem.setup_ports: one input port per parameter, an output port
\* when the function has a return annotation.
InputPortsOf(sn, sig, n) == DefinitionOf(sn[n], sig).params
HasOutputPort(sn, sig, n) == DefinitionOf(sn[n], sig).returns

\* port.connections of the input port `port` of node n
ConnectionsOf(conns, n, port) ==
    SelectSeq(conns, LAMBDA c : c.dst = n /\ c.port = port)

WithNode(sn, n, name) ==
    [m \in DOMAIN sn \cup {n} |-> IF m = n THEN name ELSE sn[m]]
WithoutNode(sn, n) == [m \in DOMAIN sn \ {n} |-> sn[m]]

otherVars == <<schedVars, invokeVars, parseVars, lazy_annotations, checkVars,
               runtimeVars, pipVars, uiVars, runVars, portVars, libVars>>

\* dropEvent, _on_tree_double_click: a node of the library is put on the canvas
AddNode ==
    /\ \E n \in EditorNodeIds \ DOMAIN scene_nodes, name \in {"add", "custom"} :
         /\ InLibrary(name)
         /\ scene_nodes' = WithNode(scene_nodes, n, name)
    /\ epc' = "add"
    /\ UNCHANGED <<scene_conns, signature, otherVars>>

\* mouseReleaseEvent, lines 247-252: the port under the pointer is taken when
\* it is an input port of another node, and the connection is made when that
\* port has no connection
Accepts(conns, src, dst, port) ==
    src # dst /\ ConnectionsOf(conns, dst, port) = <<>>

\* PortItem.mousePressEvent on an output port (start_connection), then
\* mouseReleaseEvent over the input port `port` of dst: the temporary
\* connection is finalized or removed
DragConnect ==
    /\ Len(scene_conns) < EditorMaxConns
    /\ \E src \in DOMAIN scene_nodes, dst \in DOMAIN scene_nodes :
         /\ HasOutputPort(scene_nodes, signature, src)
         /\ \E port \in InputPortsOf(scene_nodes, signature, dst) :
              scene_conns' = IF Accepts(scene_conns, src, dst, port)
                             THEN Append(scene_conns, Edge(src, dst, port))
                             ELSE scene_conns
    /\ epc' = "connect"
    /\ UNCHANGED <<scene_nodes, signature, otherVars>>

\* PortItem.mousePressEvent on an input port that has connections: every
\* connection of it is removed
ClickInputPort ==
    /\ \E n \in DOMAIN scene_nodes :
         \E port \in InputPortsOf(scene_nodes, signature, n) :
           /\ ConnectionsOf(scene_conns, n, port) # <<>>
           /\ scene_conns' = SelectSeq(scene_conns,
                                       LAMBDA c : ~(c.dst = n /\ c.port = port))
    /\ epc' = "disconnect"
    /\ UNCHANGED <<scene_nodes, signature, otherVars>>

\* delete_node: remove_all_connections, then removeItem
DeleteNode ==
    /\ \E n \in DOMAIN scene_nodes :
         /\ scene_conns' = SelectSeq(scene_conns, LAMBDA c : c.src # n /\ c.dst # n)
         /\ scene_nodes' = WithoutNode(scene_nodes, n)
    /\ epc' = "delete"
    /\ UNCHANGED <<signature, otherVars>>

\* The graph files.  nodes maps the ids of the file to the type written for
\* them, connections is the list of the file; from_port is "output" in every
\* entry.
File(ns, cs) == [nodes |-> ns, connections |-> cs]
TwoAdds == [n \in {1, 2} |-> "add"]
Files ==
    {File(TwoAdds, <<>>),
     File(TwoAdds, <<Edge(1, 2, "a")>>),
     File(TwoAdds, <<Edge(1, 2, "a"), Edge(1, 2, "b")>>),
     File(TwoAdds, <<Edge(1, 2, "a"), Edge(1, 2, "a")>>),
     File(TwoAdds, <<Edge(1, 2, "a"), Edge(2, 2, "a")>>),
     File(TwoAdds, <<Edge(1, 2, "c")>>),
     File(TwoAdds, <<Edge(1, 3, "a")>>),
     File([n \in {1, 2} |-> IF n = 1 THEN "custom" ELSE "add"],
          <<Edge(1, 2, "a"), Edge(2, 1, "a")>>),
     File([n \in {1, 2} |-> IF n = 1 THEN "gone" ELSE "add"], <<Edge(1, 2, "a")>>),
     File([n \in {1} |-> "custom"], <<Edge(1, 1, "a")>>)}

\* lines 812-829: node_map, the nodes whose type the library has
NodeMap(file) ==
    [n \in {m \in DOMAIN file.nodes : InLibrary(file.nodes[m])} |-> file.nodes[n]]

\* lines 838-860 for one entry of "connections": both nodes are in node_map,
\* the output port and the input port are found by name
Loadable(map, sig, c) ==
    /\ c.src \in DOMAIN map /\ c.dst \in DOMAIN map
    /\ HasOutputPort(map, sig, c.src)
    /\ c.port \in InputPortsOf(map, sig, c.dst)

\* lines 832-860: a ConnectionItem is made and finalized for every entry
\* whose ports are found
RECURSIVE LoadConnections(_, _, _, _)
LoadConnections(map, sig, cs, made) ==
    IF cs = <<>> THEN made
    ELSE LoadConnections(map, sig, Tail(cs),
             IF Loadable(map, sig, Head(cs)) THEN Append(made, Head(cs)) ELSE made)

\* load_from_json, lines 806-860 (import_graph_from_json of
\* storage/graph_storage.py, lines 91-121, does the same on the scene it is
\* given): the scene is cleared, the nodes and the connections of the file
\* are made
LoadFromJson ==
    /\ \E file \in Files :
         /\ scene_nodes' = NodeMap(file)
         /\ scene_conns' = LoadConnections(NodeMap(file), signature,
                                           file.connections, <<>>)
    /\ epc' = "load"
    /\ UNCHANGED <<signature, otherVars>>

\* _on_node_updated for one node of the edited name, lines 249-318: its
\* connections are saved by port name and removed, its ports are made anew
\* from the new definition, and the saved connections are made again where a
\* port of that name exists.  The ports replaced stay in the scene as children
\* of the node, so a connection of the node with itself is made again at the
\* new input port from the replaced output port.
UpdateItem(conns, n, def) ==
    SelectSeq(conns, LAMBDA c : ~(c.src = n \/ c.dst = n)) \o
    SelectSeq(conns, LAMBDA c : c.dst = n /\ c.port \in def.params) \o
    SelectSeq(conns, LAMBDA c : c.src = n /\ c.dst # n /\ def.returns)

RECURSIVE UpdateItems(_, _, _)
UpdateItems(conns, items, def) ==
    IF items = {} THEN conns
    ELSE LET n == CHOOSE m \in items : \A k \in items : m <= k
         IN UpdateItems(UpdateItem(conns, n, def), items \ {n}, def)

\* The custom node is saved with a new definition (node_updated):
\* _on_node_updated runs over every node of that name in the scene
UpdateNode ==
    /\ \E def \in Definitions \ {signature} :
         /\ signature' = def
         /\ scene_conns' = UpdateItems(scene_conns,
                                       {n \in DOMAIN scene_nodes :
                                           scene_nodes[n] = "custom"}, def)
    /\ epc' = "update"
    /\ UNCHANGED <<scene_nodes, otherVars>>

InitEditor ==
    /\ InitGraph(Graph(0, <<>>))
    /\ InvokeIdle /\ ParseIdle
    /\ lazy_annotations = TRUE /\ CheckIdle /\ RuntimeIdle /\ PipIdle /\ UiIdle
    /\ RunIdle /\ PortIdle /\ LibIdle
    /\ scene_nodes = [n \in {} |-> "none"] /\ scene_conns = <<>>
    /\ signature \in Definitions
    /\ epc = "new"

NextEditor ==
    \/ AddNode
    \/ DragConnect
    \/ ClickInputPort
    \/ DeleteNode
    \/ LoadFromJson
    \/ UpdateNode

SpecEditor == InitEditor /\ [][NextEditor]_vars

----------------------------------------------------------------------------
(* The connection lists.  Every PortItem keeps the list `connections` of   *)
(* the ConnectionItems that start or end at it; the scheduler reads the    *)
(* graph from these lists.  The nodes are add(a, b) nodes: two input       *)
(* ports and one output port each.                                         *)

PortNodeIds == {1, 2, 3}
MaxConnItems == 3
ConnIds == 1..MaxConnItems

InPort(n, name) == <<n, "input", name>>
OutPort(n) == <<n, "output", "output">>
\* node.input_ports + node.output_ports
PortsOf(n) == <<InPort(n, "a"), InPort(n, "b"), OutPort(n)>>
AllPorts == UNION {{PortsOf(n)[i] : i \in 1..3} : n \in PortNodeIds}

Listed(list, c) == \E i \in 1..Len(list) : list[i] = c

\* list.remove(c): the first occurrence is taken out
RECURSIVE ListRemove(_, _)
ListRemove(list, c) ==
    IF list = <<>> THEN <<>>
    ELSE IF Head(list) = c THEN Tail(list)
    ELSE <<Head(list)>> \o ListRemove(Tail(list), c)

\* The items nothing refers to any more are forgotten.
Collect(st) ==
    [st EXCEPT !.ends =
        [c \in {d \in DOMAIN st.ends :
                   st.ends[d].in_scene \/ \E port \in AllPorts : Listed(st.conns[port], d)}
            |-> st.ends[c]]]

\* ConnectionItem.finalize_connection, lines 32-36, for a new item c
finalize_connection(st, c, start_port, end_port) ==
    [conns |-> [st.conns EXCEPT ![start_port] = Append(@, c),
                                ![end_port] = Append(@, c)],
     ends |-> [d \in DOMAIN st.ends \cup {c} |->
                  IF d = c THEN [start_port |-> start_port, end_port |-> end_port,
                                 in_scene |-> TRUE]
                  ELSE st.ends[d]]]

\* The connection is taken out of the list of its end port only.
remove_connection_at_end(st, c) ==
    [conns |-> [st.conns EXCEPT
                   ![st.ends[c].end_port] = IF Listed(@, c) THEN ListRemove(@, c) ELSE @],
     ends |-> [st.ends EXCEPT ![c].in_scene = FALSE]]

\* ConnectionItem.remove_connection, lines 38-44
remove_connection(st, c) ==
    [conns |-> [port \in AllPorts |->
                   IF port \in {st.ends[c].start_port, st.ends[c].end_port}
                      /\ Listed(st.conns[port], c)
                   THEN ListRemove(st.conns[port], c) ELSE st.conns[port]],
     ends |-> [st.ends EXCEPT ![c].in_scene = FALSE]]

\* for conn in port.connections[:]: conn.remove_connection()
RECURSIVE RemoveEach(_, _)
RemoveEach(st, copy) ==
    IF copy = <<>> THEN st
    ELSE RemoveEach(remove_connection(st, Head(copy)), Tail(copy))

\* SimpleNodeItem.remove_all_connections, lines 89-92: the copy of a port's
\* list is taken when the loop reaches the port
RECURSIVE RemoveAllConnections(_, _)
RemoveAllConnections(st, ports) ==
    IF ports = <<>> THEN st
    ELSE RemoveAllConnections(RemoveEach(st, st.conns[Head(ports)]), Tail(ports))

PortState == [conns |-> connections, ends |-> conn_ends]

SetPortState(st) ==
    \E done \in {Collect(st)} :
        connections' = done.conns /\ conn_ends' = done.ends

portOtherVars == <<schedVars, invokeVars, parseVars, lazy_annotations, checkVars,
                   runtimeVars, pipVars, uiVars, runVars, libVars, scene_conns, signature>>

\* dropEvent: a new node, whose ports list nothing
PlaceNode ==
    /\ \E n \in PortNodeIds \ DOMAIN scene_nodes :
         /\ scene_nodes' = WithNode(scene_nodes, n, "add")
         /\ connections' = [port \in AllPorts |->
                               IF port[1] = n THEN <<>> ELSE connections[port]]
    /\ epc' = "add"
    /\ UNCHANGED <<conn_ends, portOtherVars>>

\* start_connection on the output port of src, then mouseReleaseEvent over
\* the input port `name` of dst: finalized when dst is another node and the
\* port lists nothing, removed from the scene otherwise
ConnectPorts ==
    /\ \E src \in DOMAIN scene_nodes, dst \in DOMAIN scene_nodes, name \in PortNames :
         \E c \in ConnIds \ DOMAIN conn_ends :
           /\ \A d \in ConnIds \ DOMAIN conn_ends : c <= d
           /\ IF src # dst /\ connections[InPort(dst, name)] = <<>>
              THEN SetPortState(finalize_connection(PortState, c, OutPort(src),
                                                    InPort(dst, name)))
              ELSE UNCHANGED portVars
    /\ epc' = "connect"
    /\ UNCHANGED <<scene_nodes, portOtherVars>>

\* PortItem.mousePressEvent on an input port that lists connections
DisconnectPort ==
    /\ \E n \in DOMAIN scene_nodes, name \in PortNames :
         /\ connections[InPort(n, name)] # <<>>
         /\ SetPortState(RemoveEach(PortState, connections[InPort(n, name)]))
    /\ epc' = "disconnect"
    /\ UNCHANGED <<scene_nodes, portOtherVars>>

\* delete_node, lines 448-451
DeletePortNode ==
    /\ \E n \in DOMAIN scene_nodes :
         /\ SetPortState(RemoveAllConnections(PortState, PortsOf(n)))
         /\ scene_nodes' = WithoutNode(scene_nodes, n)
    /\ epc' = "delete"
    /\ UNCHANGED portOtherVars

InitPorts ==
    /\ InitGraph(Graph(0, <<>>))
    /\ InvokeIdle /\ ParseIdle
    /\ lazy_annotations = TRUE /\ CheckIdle /\ RuntimeIdle /\ PipIdle /\ UiIdle
    /\ RunIdle /\ LibIdle
    /\ scene_nodes = [n \in {} |-> "none"] /\ scene_conns = <<>> /\ signature = <<>>
    /\ epc = "new"
    /\ connections = [port \in AllPorts |-> <<>>]
    /\ conn_ends = <<>>

NextPorts ==
    \/ PlaceNode
    \/ ConnectPorts
    \/ DisconnectPort
    \/ DeletePortNode

SpecPorts == InitPorts /\ [][NextPorts]_vars

----------------------------------------------------------------------------
(* Properties of the graphs                                                *)

RECURSIVE ReachFrom(_, _, _)
ReachFrom(es, S, k) ==
    IF k = 0 THEN S
    ELSE ReachFrom(es, S \cup {es[i].dst : i \in {j \in 1..Len(es) : es[j].src \in S}}, k - 1)

\* the nodes a path of at least one connection leads to from n
Descendants(es, n) ==
    ReachFrom(es, {es[i].dst : i \in {j \in 1..Len(es) : es[j].src = n}}, Len(es))

Acyclic(ns, es) == \A i \in 1..Len(ns) : ns[i] \notin Descendants(es, ns[i])

OnePerPort(es) ==
    \A i, j \in 1..Len(es) :
        (es[i].dst = es[j].dst /\ es[i].port = es[j].port) => i = j

Occurrences(seq, n) == Cardinality({i \in 1..Len(seq) : seq[i] = n})
Pos(seq, n) == CHOOSE i \in 1..Len(seq) : seq[i] = n

\* seq holds every node of ns once, each after all nodes with an edge into it
TopologicalOrder(ns, es, seq) ==
    /\ Len(seq) = Len(ns)
    /\ \A i \in 1..Len(ns) : Occurrences(seq, ns[i]) = 1
    /\ \A i \in 1..Len(es) : Pos(seq, es[i].src) < Pos(seq, es[i].dst)

IsGraph(g) == nodes = g.nodes /\ edges = g.edges

----------------------------------------------------------------------------
\* C1: for every graph given to topological_sort whose edges form a DAG and
\* whose input ports each have at most one incoming edge, the returned order
\* holds every node once, each after every node that has an edge into it.
C1_SortIsTopological ==
    (pc = "done" /\ Acyclic(nodes, edges) /\ OnePerPort(edges))
        => TopologicalOrder(nodes, edges, sorted_nodes)

\* The diamond given in reverse list order comes back in dependency order.
C1_Witness ==
    /\ pc = "done" /\ IsGraph(DiamondReversed)
    /\ sorted_nodes = <<4, 3, 2, 1>>

Finished(n) == status[n] \in {STATUS_SUCCESS, STATUS_ERROR}
Failed(n) == invoked[n].called /\ ~invoked[n].out.ok
Returned == pc = "done" /\ ret # "none"
ArgOf(n, port) == DictGet(kwargs[n].v, <<port>>, None)

----------------------------------------------------------------------------
\* C2: in execute_graph on an acyclic graph with at most one edge per input
\* port, whenever a node is running every node feeding one of its connected
\* input ports has finished in this run (success or error), and the argument
\* passed for each connected port is that source node's result of this run;
\* in the diamond A->B, A->C, B->D, C->D, A is first in the order, D last,
\* and D's arguments are B's and C's results.
C2_InputsReady ==
    (Acyclic(nodes, edges) /\ OnePerPort(edges)) =>
        /\ \A i \in 1..Len(edges) :
             /\ status[edges[i].dst] = STATUS_RUNNING => Finished(edges[i].src)
             /\ invoked[edges[i].dst].called =>
                    ArgOf(edges[i].dst, edges[i].port) = result[edges[i].src]
        /\ (IsGraph(Diamond) /\ pc \in {"loop", "running"}) =>
             /\ sorted_nodes[1] = 1 /\ sorted_nodes[4] = 4
             /\ status[4] = STATUS_RUNNING => Finished(2) /\ Finished(3)
        /\ (IsGraph(Diamond) /\ invoked[4].called) =>
             kwargs[4] = ObjV(<<Pair("a", result[2]), Pair("b", result[3])>>)

\* The diamond has run: B returned 1, C returned 2, D was called with both
\* and returned its argument a.
C2_Witness ==
    /\ IsGraph(Diamond) /\ Returned /\ ret = "True"
    /\ result[2] = IntV(1) /\ result[3] = IntV(2)
    /\ kwargs[4] = ObjV(<<Pair("a", IntV(1)), Pair("b", IntV(2))>>)
    /\ result[4] = IntV(1)

\* C3: in execute_graph, when the invocation of a node fails (an exception
\* while its snippet is resolved or executed), the node is set to error with
\* the message, and every node later in the computed order is still executed
\* in the same run: each of them reaches success or error.
C3_ContinuesAfterError ==
    /\ \A n \in NodeSet :
         Failed(n) => /\ status[n] = STATUS_ERROR
                      /\ error_message[n] = Message(invoked[n].out.err)
    /\ \A i \in 1..Len(sorted_nodes) :
         (Failed(sorted_nodes[i]) /\ pc = "loop") => idx > i
    /\ Returned =>
         \A i, j \in 1..Len(sorted_nodes) :
            (Failed(sorted_nodes[i]) /\ i < j) =>
                invoked[sorted_nodes[j]].called /\ Finished(sorted_nodes[j])

\* In the reversed chain the first node executed failed and the two after it
\* ran to success.
C3_Witness ==
    /\ IsGraph(ChainReversed) /\ Returned
    /\ status[3] = STATUS_ERROR /\ error_message[3] # <<>>
    /\ status[2] = STATUS_SUCCESS /\ status[1] = STATUS_SUCCESS

\* C4 as stated: for every node list, the empty one included, execute_graph
\* returns true exactly when no node's execution failed and false exactly
\* when at least one node ended in error.
C4_ReturnIsConjunction ==
    Returned => /\ ret = "True" <=> (\A n \in NodeSet : ~Failed(n))
                /\ ret = "False" <=> (\E n \in NodeSet : status[n] = STATUS_ERROR)

\* C4 amended: for a non-empty node list run with an executor, execute_graph
\* returns true exactly when no node's execution failed and false exactly
\* when at least one node ended in error; for the empty list it returns
\* false, and without an executor it returns false as soon as the computed
\* order holds a node.
C4_ReturnAmended ==
    Returned =>
        IF nodes = <<>> THEN ret = "False"
        ELSE IF ~executor THEN ret = "True" <=> sorted_nodes = <<>>
        ELSE /\ ret = "True" <=> (\A n \in NodeSet : ~Failed(n) /\ status[n] # STATUS_ERROR)
             /\ ret = "False" <=> (\E n \in NodeSet : Failed(n) /\ status[n] = STATUS_ERROR)

\* A run of two nodes returned false with one node in error and one in success.
C4_Witness ==
    /\ Returned /\ executor /\ Len(nodes) = 2 /\ ret = "False"
    /\ status[1] = STATUS_ERROR /\ status[2] = STATUS_SUCCESS

\* C5: when a node's child process exceeds the timeout, execute_node raises
\* a TimeoutError, not the RuntimeError of an ordinary failure, whose message
\* names the limit of 30 seconds; execute_graph sets the node to error with
\* that message, and every other node of the order is still executed.
C5_TimeoutIsolated ==
    \A n \in NodeSet :
        invoked[n].hung =>
            /\ invoked[n].out = Raise(Err("TimeoutError", "timeout", <<>>, NodeTimeout))
            /\ status[n] = STATUS_ERROR
            /\ error_message[n] = <<"timeout", "3", "0">>
            /\ Returned => \A i \in 1..Len(sorted_nodes) :
                              /\ invoked[sorted_nodes[i]].called
                              /\ Finished(sorted_nodes[i])

\* In the diamond B hung; C and D still ran to success.
C5_Witness ==
    /\ IsGraph(Diamond) /\ Returned /\ invoked[2].hung
    /\ status[2] = STATUS_ERROR
    /\ status[3] = STATUS_SUCCESS /\ status[4] = STATUS_SUCCESS

\* C6: after execute_graph returns, every node that was executed has the
\* status of its invocation's outcome: success with the value the invoker
\* returned as result, or error with the failure message and no result
\* (None); a failed node never holds a value as its result.
C6_StatusMatchesOutcome ==
    Returned =>
        \A n \in NodeSet :
            invoked[n].called =>
                IF invoked[n].out.ok
                THEN /\ status[n] = STATUS_SUCCESS
                     /\ result[n] = invoked[n].out.val
                ELSE /\ status[n] = STATUS_ERROR
                     /\ error_message[n] = Message(invoked[n].out.err)
                     /\ result[n] = None

\* A node whose child failed is in error without a result, next to a node
\* holding the value its function returned.
C6_Witness ==
    /\ IsGraph(ChainReversed) /\ Returned
    /\ status[3] = STATUS_SUCCESS /\ result[3] = IntV(2)
    /\ status[2] = STATUS_ERROR /\ result[2] = None
    /\ invoked[2].out.err.kind = "child_failed"

----------------------------------------------------------------------------
\* C7: execute_node on a snippet with zero or with more than one top-level
\* function definition fails before a temporary script file is written and
\* before a child process is spawned; for a snippet with two top-level
\* functions the error is the one that allows exactly one function, and it
\* lists both function names.
C7_RejectedBeforeSpawn ==
    (ipc # "call" /\ ~HasSyntaxError(func_code)
       /\ Len(TopLevelFunctions(func_code)) # 1) =>
        /\ script_path = "none" /\ spawned = 0
        /\ ipc = "returned" /\ ~outcome.ok
        /\ Len(TopLevelFunctions(func_code)) = 2 =>
             /\ outcome.err.kind = "multiple_functions"
             /\ outcome.err.text =
                    [i \in 1..2 |-> TopLevelFunctions(func_code)[i].name]

\* C8: for every JSON-representable argument map (numbers, lists, nested
\* maps, strings, also with quote or backslash characters), the map decoded
\* in the driver script equals the map given to execute_node: a function
\* that returns its arguments returns the identical structure, and the same
\* call made again returns the same.
C8_ArgsRoundTrip ==
    (ipc = "returned" /\ func_code = OneFunction
       /\ child = Child(<<>>, "return_args", IntV(1))) =>
        /\ outcome = Return(args)
        /\ calls = 2 => outcome = previous

\* C9: on exit code zero, whatever the snippet printed to stdout before the
\* driver's result block (any lines, also lines equal to a marker or lines
\* that are JSON), the call returns exactly the result field of the driver's
\* success payload.
C9_PrintsNeverChangeResult ==
    (ipc = "returned" /\ spawned = 1 /\ child.end = "return"
       /\ completed = Completed(0, child.prints \o ResultBlock(child.value), <<>>)) =>
        outcome = Return(child.value)

HasMarker(text, m) == \E i \in 1..Len(text) : text[i] = m
FirstPos(text, m) == CHOOSE i \in 1..Len(text) : text[i] = m /\ \A j \in 1..(i - 1) : text[j] # m

\* the text after the first start marker and before the first end marker
Between(text) ==
    IF FirstPos(text, "E") > FirstPos(text, "S")
    THEN SubSeq(text, FirstPos(text, "S") + 1, FirstPos(text, "E") - 1)
    ELSE <<>>

\* the line is a JSON object with a success field
IsOutcomeLine(line) ==
    /\ json_loads(Strip(line)).ok
    /\ json_loads(Strip(line)).v.k = "obj"
    /\ HasKey(json_loads(Strip(line)).v.v, <<"success">>)

\* out is what the object decides: its result, or a failure when its
\* success field is false
DecidedBy(pairs, out) ==
    IF Truthy(DictGet(pairs, <<"success">>, None))
    THEN out = Return(DictGet(pairs, <<"result">>, None))
    ELSE ~out.ok /\ out.err.exc = "RuntimeError"

OutcomeLines(text) == {i \in 1..Len(Lines(text)) : IsOutcomeLine(Lines(text)[i])}
LastOutcomeLine(text) ==
    Lines(text)[CHOOSE i \in OutcomeLines(text) : \A j \in OutcomeLines(text) : j <= i]

\* C10: _parse_result follows a three-step rule for every stdout.  With both
\* result markers in it, only the text between them is parsed as JSON, and a
\* parse error is a failure, never a fallback.  With a marker missing, the
\* last line that is a JSON object with a success field decides: its result
\* is returned, or a failure raised when success is false.  Without such a
\* line the trimmed stdout is returned.
C10_ThreeStepRule ==
    ppc = "done" =>
        IF HasMarker(stdout, "S") /\ HasMarker(stdout, "E")
        THEN /\ ~json_loads(Strip(Between(stdout))).ok =>
                    ~parsed.ok /\ parsed.err.kind = "cannot_parse_result"
             /\ (json_loads(Strip(Between(stdout))).ok
                   /\ json_loads(Strip(Between(stdout))).v.k = "obj") =>
                    DecidedBy(json_loads(Strip(Between(stdout))).v.v, parsed)
             /\ parsed.ok => json_loads(Strip(Between(stdout))).v.k = "obj"
        ELSE IF OutcomeLines(stdout) = {}
        THEN parsed = Return(StrV(Strip(stdout)))
        ELSE DecidedBy(json_loads(Strip(LastOutcomeLine(stdout))).v.v, parsed)

\* Without markers, a success line followed by a failure line and a plain
\* line: the failure line, the last of the two, decided.
C10_Witness ==
    /\ ppc = "done"
    /\ stdout = JoinLines(<<SuccessLine, FailureLine, <<"x">>>>)
    /\ parsed = Raise(Err("RuntimeError", "child_error", <<"x">>, 0))

----------------------------------------------------------------------------
\* the text after the first marker a and before the first marker b
BetweenMarkers(text, a, b) ==
    IF FirstPos(text, b) > FirstPos(text, a)
    THEN SubSeq(text, FirstPos(text, a) + 1, FirstPos(text, b) - 1)
    ELSE <<>>

\* what execute_node concatenates when the child failed
Combined == completed.stdout \o <<"NL">> \o completed.stderr

\* the text between the first error markers is a JSON object
HasErrorPayload(text) ==
    /\ HasMarker(text, "ES") /\ HasMarker(text, "EE")
    /\ json_loads(Strip(BetweenMarkers(text, "ES", "EE"))).ok
    /\ json_loads(Strip(BetweenMarkers(text, "ES", "EE"))).v.k = "obj"
ErrorPayloadOf(text) == json_loads(Strip(BetweenMarkers(text, "ES", "EE"))).v.v

ExitedNonzero ==
    /\ ipc \in {"finally", "returned"} /\ spawned = 1
    /\ ~completed.timed_out /\ completed.returncode # 0

LineSet(text) == {Lines(text)[i] : i \in 1..Len(Lines(text))}

\* C11: whenever the child process exits with a nonzero code, execute_node
\* raises a failure and returns no value.  The message is the diagnostic of
\* the error-marker payload when the payload has a non-empty one, otherwise
\* the payload's short error string; without a well-formed payload the
\* message is made of lines of the combined stdout and stderr, or is the
\* fixed no-information text when both are blank, and it is never empty.
C11_NonzeroExitRaises ==
    ExitedNonzero =>
        /\ ~outcome.ok /\ outcome.err.exc = "RuntimeError"
        /\ IF HasErrorPayload(Combined)
           THEN IF Truthy(DictGet(ErrorPayloadOf(Combined), <<"traceback">>, StrV(<<>>)))
                THEN outcome.err.text =
                        StrOf(DictGet(ErrorPayloadOf(Combined), <<"traceback">>, None))
                ELSE outcome.err.text =
                        StrOf(DictGet(ErrorPayloadOf(Combined), <<"error">>, UnknownError))
           ELSE /\ outcome.err.text # <<>>
                /\ IF Strip(Combined) = <<>>
                   THEN outcome.err.text = <<"no_error_info">>
                   ELSE LineSet(outcome.err.text) \subseteq LineSet(Strip(Combined))

\* The child wrote an error block with an empty diagnostic and ended with
\* exit code 2: the call raised the block's short error string.
C11_Witness ==
    /\ ipc = "returned" /\ spawned = 1 /\ completed.returncode = 2
    /\ completed.stderr = ErrorBlock(<<"boom">>, <<>>)
    /\ outcome = Raise(Err("RuntimeError", "child_failed", <<"boom">>, 0))

\* C12: every execute_node call that wrote the temporary script has called
\* os.unlink on it by the time it returns or raises, whether the child
\* succeeded, failed, printed an unparsable result, timed out or could not
\* be started; an error of the deletion is swallowed, and the call's outcome
\* is the one it had before the deletion.
C12_ScriptAlwaysUnlinked ==
    (ipc = "returned" /\ script_path \in {"written", "deleted"}) =>
        /\ unlink_calls = 1
        /\ outcome = IF spawned = 1 THEN AfterRun(completed, timeout)
                     ELSE Raise(Err("OSError", "launch_failed", <<>>, 0))

\* The child timed out and the deletion failed: the call raised the
\* TimeoutError, and the file is still there.
C12_Witness ==
    /\ ipc = "returned" /\ completed.timed_out
    /\ unlink_calls = 1 /\ script_path = "written"
    /\ outcome.err.exc = "TimeoutError"

----------------------------------------------------------------------------
(* Properties of the safety checker                                        *)

Checked == cpc = "done"
ImportStatements(code) ==
    {i \in 1..Len(code) : code[i].t \in {"import", "fimport", "from"} /\ code[i].module # <<>>}
ErrorsAbout(what) ==
    {i \in 1..Len(check_result.errors) : check_result.errors[i].what = what}
WarningsAbout(kind, what) ==
    {i \in 1..Len(check_result.warnings) :
        check_result.warnings[i] = Finding(kind, what)}

\* C13: for every snippet that parses, if an import or from-import
\* statement, at the top level or inside the function, names a module whose
\* first component is on the block-list, check_code_safety returns
\* is_safe = false and an error that names this module.
C13_BlockListedImportIsUnsafe ==
    (Checked /\ ~HasSyntaxError(snippet)) =>
        \A i \in ImportStatements(snippet) :
            snippet[i].module[1] \in FORBIDDEN_MODULES =>
                /\ ~check_result.is_safe
                /\ \E e \in ErrorsAbout(snippet[i].module[1]) :
                      check_result.errors[e].kind = "forbidden_module"

\* import os.path inside the function: one error, naming os.
C13_Witness ==
    /\ Checked
    /\ snippet = <<Line("def", "f"), ImportLine("fimport", <<"os", "path">>, 0)>>
    /\ ~check_result.is_safe
    /\ check_result.errors = <<Finding("forbidden_module", "os")>>

\* C14: execute_graph never consults the safety checker.  A node whose
\* snippet check_code_safety finds unsafe, as one that imports the
\* block-listed module os does, is still handed to executor.execute_node and
\* executed, and the imports extracted from the snippet are what is passed as
\* the pre-import list.
C14_UnsafeSnippetStillExecuted ==
    \A n \in NodeSet :
        (/\ invoked[n].called /\ invoked[n].func_code # NoSource
         /\ ~check_code_safety(invoked[n].func_code, {}).is_safe) =>
            /\ invoked[n].executed
            /\ invoked[n].imports = extract_imports(invoked[n].func_code)
            /\ invoked[n].func_code = ImportsOs => invoked[n].out = Return(IntV(1))

\* C15: for every snippet and every list of extra allowed modules, the
\* result of check_code has is_safe = true exactly when its error list is
\* empty; warnings, however many, never make is_safe false.
C15_SafeIffNoErrors ==
    Checked => (check_result.is_safe <=> check_result.errors = <<>>)

\* A function importing requests and numpy: three warnings, no error, safe.
C15_Witness ==
    /\ Checked /\ allowed_modules = {}
    /\ snippet = <<Line("def", "f"), ImportLine("fimport", <<"requests">>, 0),
                   ImportLine("fimport", <<"numpy">>, 0)>>
    /\ Len(check_result.warnings) = 3
    /\ check_result.errors = <<>> /\ check_result.is_safe

HasFunctionCountError ==
    \E i \in 1..Len(check_result.errors) :
        check_result.errors[i].kind \in {"too_many_functions", "no_function"}

\* C16: check_code records a function-count error exactly when the number
\* of top-level function definitions of the snippet is zero or more than
\* one; a snippet with exactly one top-level function, whatever its body
\* holds, nested function definitions included, gets none, and this agrees
\* with the invoker's name extraction: the count error is there exactly
\* when _extract_func_name rejects the snippet.
C16_CountsTopLevelFunctions ==
    (Checked /\ ~HasSyntaxError(snippet)) =>
        /\ HasFunctionCountError <=> Len(TopLevelFunctions(snippet)) # 1
        /\ HasFunctionCountError <=> ~_extract_func_name(snippet).ok

ImportIsClean(line, what) ==
    /\ ErrorsAbout(what) = {}
    /\ what \in WARNING_MODULES => WarningsAbout("caution", what) # {}
    /\ what \notin ALLOWED_MODULES \cup allowed_modules =>
            WarningsAbout("not_allowed", what) # {}
    /\ (what \in ALLOWED_MODULES \cup allowed_modules /\ what \notin WARNING_MODULES) =>
            \A i \in 1..Len(check_result.warnings) : check_result.warnings[i].what # what

\* the snippet is one function whose body only imports modules that are not
\* block-listed
OnlyCleanImports(code) ==
    /\ Len(code) > 1 /\ code[1] = Line("def", "f")
    /\ \A i \in 2..Len(code) :
          /\ code[i].t \in {"fimport", "from"}
          /\ code[i].module # <<>> => code[i].module[1] \notin FORBIDDEN_MODULES

\* C17: for every imported module that is not on the block-list, check_code
\* adds no error for the import: a caution-list module gets the caution
\* warning, a module outside the allow-list and the extra allowed modules the
\* not-pre-approved warning, an allow-listed module nothing; and a snippet
\* with no other violation stays safe.
C17_OtherImportsOnlyWarn ==
    (Checked /\ ~HasSyntaxError(snippet)) =>
        /\ \A i \in ImportStatements(snippet) :
              snippet[i].module[1] \notin FORBIDDEN_MODULES =>
                  ImportIsClean(snippet[i], snippet[i].module[1])
        /\ OnlyCleanImports(snippet) =>
              check_result.is_safe /\ check_result.errors = <<>>

\* A function importing requests and json, checked without extra modules:
\* the two warnings are about requests, none is about json, and it is safe.
C17_Witness ==
    /\ Checked /\ allowed_modules = {}
    /\ snippet = <<Line("def", "f"), ImportLine("fimport", <<"requests">>, 0),
                   ImportLine("fimport", <<"json">>, 0)>>
    /\ check_result.warnings =
           <<Finding("caution", "requests"), Finding("not_allowed", "requests")>>
    /\ check_result.imports = <<<<"requests">>, <<"json">>>>
    /\ check_result.is_safe

\* the candidates in the order of the search; an unset or empty variable
\* names no path
Candidates(env) ==
    <<ExeCandidate>> \o (IF env.k = "str" /\ env.v # "" THEN <<env.v>> ELSE <<>>)
        \o <<ProjectCandidate>>

\* the last operation was a get_executor call that searched for the runtime
Searched == rpc = "got" /\ cached_before = NoExecutor

C19_ResolvedOncePerReset ==
    /\ resolved_since_reset <= 1
    /\ (_executor # NoExecutor) <=> (resolved_since_reset = 1)
    /\ rpc = "reset" => _executor = NoExecutor
    /\ rpc = "got" =>
          /\ cached_before # NoExecutor =>
                got = Return(cached_before) /\ _executor = cached_before /\ found = NotCalled
          /\ cached_before = NoExecutor => found # NotCalled
          /\ got.ok => got.val = _executor
          /\ ~got.ok => _executor = NoExecutor

\* The second executor of the behaviour (one reset lies behind) is returned
\* again by a later call although a search would now give another path.
C19_Witness ==
    /\ rpc = "got" /\ cached_before # NoExecutor /\ got = Return(cached_before)
    /\ _executor.id = 2 /\ resolved_since_reset = 1
    /\ \E f \in {_find_embedded_python(environ, disk)} :
          f.ok /\ f.val.v # _executor.python_exe

\* C20: install_package, uninstall_package and install_requirements never
\* raise: a time limit passed, a nonzero exit code, a manifest file that is
\* not there and any exception while launching the process each give a pair
\* whose first component is false, with a message, and the first component
\* is true only when the pip process ended with exit code zero.
C20_PackageOperationsNeverRaise ==
    (pipc = "done" /\ pip_op \in {"install_package", "uninstall_package",
                                  "install_requirements"}) =>
        /\ pip_result.ok
        /\ Len(pip_result.val) = 2 /\ pip_result.val[1] \in BOOLEAN
        /\ pip_result.val[1] => pip_run.kind = "exit" /\ pip_run.code = 0
        /\ (\/ pip_run.kind # "exit"
            \/ pip_run.code # 0
            \/ pip_op = "install_requirements" /\ pip_stat = "missing") =>
                pip_result.val[1] = FALSE

\* the names in a list of lines  name==version
NamesOfLines(lines) ==
    {SubSeq(lines[i], 1, Len(lines[i]) - 2) : i \in {j \in 1..Len(lines) : lines[j] # <<>>}}

PipSucceeded == pip_run.kind = "exit" /\ pip_run.code = 0

\* C21: export_requirements and list_installed_packages leave out the same
\* packages: for every set of installed packages the list returned and the
\* manifest written each hold exactly the installed packages other than
\* pip, setuptools and wheel, so a package whose name only begins with one
\* of these names is kept by both.
C21_SamePackagesExcluded ==
    (pipc = "done" /\ PipSucceeded) =>
        /\ pip_op = "list_installed_packages" =>
              {pip_result.val[i].name : i \in 1..Len(pip_result.val)}
                  = installed \ BootstrapPackages
        /\ (pip_op = "export_requirements" /\ pip_stat # "error") =>
              NamesOfLines(manifest) = installed \ BootstrapPackages

\* C22: when stop_graph is called while a run is in progress, the invocation
\* in flight completes, and no node that had not been started then is set
\* running or executed afterwards in that run.
C22_NoNodeStartedAfterStop ==
    stop_at > 0 =>
        /\ (Returned /\ executor) => invoked[sorted_nodes[stop_at]].called
        /\ \A i \in (stop_at + 1)..Len(sorted_nodes) :
              /\ status[sorted_nodes[i]] = STATUS_IDLE
              /\ ~invoked[sorted_nodes[i]].called

\* the argument map of node n was built in this run
Gathered(n) == pc # "idle" /\ kwargs[n] # ObjV(<<>>)

\* the connections into an input port
EdgesInto(n, port) == {i \in 1..Len(edges) : edges[i].dst = n /\ edges[i].port = port}

\* C28: the argument map execute_graph builds for a node has exactly one key
\* per input port of the node, and its value is the source node's result
\* when the port has an incoming edge, whatever preset the port has;
\* otherwise the node's param_values entry for the port when there is one;
\* otherwise None.
C28_ArgumentMap ==
    \A n \in NodeSet : Gathered(n) =>
        /\ Len(kwargs[n].v) = Cardinality(PortNames)
        /\ {kwargs[n].v[i][1] : i \in 1..Len(kwargs[n].v)} = {<<port>> : port \in PortNames}
        /\ \A port \in PortNames :
              IF EdgesInto(n, port) # {}
              THEN \E i \in EdgesInto(n, port) : ArgOf(n, port) = result[edges[i].src]
              ELSE IF port \in DOMAIN param_values[n]
              THEN ArgOf(n, port) = param_values[n][port]
              ELSE ArgOf(n, port) = None

\* Node 1 with a preset for a feeds port a of node 2, which has presets for
\* both ports: node 1 got its preset and None, node 2 got node 1's result for
\* a and its preset for b.
C28_Witness ==
    /\ nodes = <<1, 2>> /\ edges = <<Edge(1, 2, "a")>> /\ Returned
    /\ param_values[1] = [port \in {"a"} |-> IntV(7)]
    /\ param_values[2] = [port \in {"a", "b"} |-> StrV(<<"x">>)]
    /\ kwargs[1] = ObjV(<<Pair("a", IntV(7)), Pair("b", None)>>)
    /\ result[1] = IntV(1)
    /\ kwargs[2] = ObjV(<<Pair("a", IntV(1)), Pair("b", StrV(<<"x">>))>>)

\* C23: when the edges of the graph given to execute_graph hold a cycle, the
\* run is aborted and reported as failed: execute_graph returns false, never
\* true.
C23_CycleReportedAsFailure ==
    (Returned /\ nodes # <<>> /\ ~Acyclic(nodes, edges)) => ret = "False"

Running == {n \in NodeSet : status[n] = STATUS_RUNNING}

C30_NoNodeLeftRunning ==
    Returned => Running = {}

Sorted == pc = "done" /\ ret = "none"
InOrder(n) == \E i \in 1..Len(sorted_nodes) : sorted_nodes[i] = n
ConnectedPorts(n) == {port \in PortNames : EdgesInto(n, port) # {}}

\* the connections into n whose source stands before n in the order, or
\* anywhere in the order when n is not in it
ServedEdges(n) ==
    {i \in 1..Len(edges) :
        /\ edges[i].dst = n /\ InOrder(edges[i].src)
        /\ InOrder(n) => Pos(sorted_nodes, edges[i].src) < Pos(sorted_nodes, n)}

\* C25: topological_sort counts the initial in-degree of a node once per
\* connected input port and counts it down once per connection of a node
\* taken from the queue: a node is in the returned order exactly when it has
\* no connected port or at least as many of its incoming connections as it
\* has connected ports come from nodes before it; so with several
\* connections on one port a node can stand before a node that has a
\* connection into it.
C25_CountedPerPortServedPerEdge ==
    Sorted =>
        \A n \in NodeSet :
            InOrder(n) <=>
                \/ ConnectedPorts(n) = {}
                \/ Cardinality(ServedEdges(n)) >= Cardinality(ConnectedPorts(n))

\* Nodes 1 and 2 feed the same port of node 3 and node 1 feeds node 2: node
\* 3 is placed before node 2.
C25_Witness ==
    /\ Sorted /\ IsGraph(SharedPortChain)
    /\ sorted_nodes = <<1, 3, 2>>
    /\ \E i \in 1..Len(edges) :
          Pos(sorted_nodes, edges[i].dst) < Pos(sorted_nodes, edges[i].src)

\* C29: for an acyclic graph with at most one connection per input port
\* topological_sort returns a permutation of the nodes given; for every
\* graph, whatever its connections, no node is in the returned order more
\* than once (and none that was not given).
C29_OrderHasNoDuplicates ==
    Sorted =>
        /\ (Acyclic(nodes, edges) /\ OnePerPort(edges)) =>
              /\ Len(sorted_nodes) = Len(nodes)
              /\ \A n \in NodeSet : Occurrences(sorted_nodes, n) = 1
        /\ \A n \in NodeSet : Occurrences(sorted_nodes, n) <= 1
        /\ \A i \in 1..Len(sorted_nodes) : sorted_nodes[i] \in NodeSet

\* Two nodes connected to the same port of a third: the port's count goes
\* below zero and the third node is still queued once.
C29_Witness ==
    /\ Sorted /\ IsGraph(SamePortTwice)
    /\ sorted_nodes = <<1, 2, 3>>

----------------------------------------------------------------------------
(* A snippet that does not parse                                           *)

\* The child has run and execute_node has ended, for a text that ast.parse
\* rejects and in which the regular expression finds one function.
SyntaxErrorRun ==
    /\ ipc = "returned" /\ spawned = 1
    /\ script.ok /\ HasSyntaxError(func_code)

\* What _parse_error gives for the payload of the driver's own check.
RevalidationMessage(code) ==
    <<"SyntaxError:", "SP", "x", "NL", "line">> \o Digits(FirstBadLine(code, 1))

\* C26: when the snippet text has a syntax error and passes the extraction
\* of the function name, the invocation fails with the outcome of the driver
\* script's own check of the text: the payload between the error markers,
\* whose message is the syntax error with its line number.
C26_SyntaxErrorFromRevalidation ==
    SyntaxErrorRun =>
        /\ Find(completed.stderr, "ES") # -1
        /\ ~outcome.ok
        /\ outcome.err.exc = "RuntimeError"
        /\ outcome.err.text = RevalidationMessage(func_code)

\* The part that holds: the failure is a RuntimeError whose text names a
\* SyntaxError, with the line number only when the script itself compiled.
SyntaxErrorIsNamed ==
    SyntaxErrorRun =>
        /\ ~outcome.ok /\ outcome.err.exc = "RuntimeError"
        /\ outcome.err.text # <<>> /\ outcome.err.text[1] = "SyntaxError:"
        /\ (~BreaksScript(func_code) <=> outcome.err.text = RevalidationMessage(func_code))

RevalidationReached ==
    SyntaxErrorRun /\ ~BreaksScript(func_code)

----------------------------------------------------------------------------
(* One producer per input port                                             *)

OneProducer(sn, conns, sig) ==
    \A n \in DOMAIN sn :
        \A port \in InputPortsOf(sn, sig, n) : Len(ConnectionsOf(conns, n, port)) <= 1

\* C24: after any sequence of editor operations (connecting by drag,
\* disconnecting by a click on an input port, deleting a node, loading a
\* graph from a file, updating the custom node's definition), every input
\* port has at most one incoming connection.
C24_AtMostOneConnectionPerInputPort ==
    OneProducer(scene_nodes, scene_conns, signature)

\* Every operation but the loading of a file keeps it.
OtherOperationsKeepOneProducer ==
    [][(OneProducer(scene_nodes, scene_conns, signature) /\ epc' # "load")
         => OneProducer(scene_nodes', scene_conns', signature')]_vars

----------------------------------------------------------------------------
(* Nodes downstream of a failed node                                       *)

\* The node whose result line 90 reads for the connected port of edges[i]:
\* the start of the port's first connection.
FeedsFirst(i) == InConns(edges, edges[i].dst, edges[i].port)[1] = edges[i]

InOrderOfRun(n) == \E k \in 1..Len(sorted_nodes) : sorted_nodes[k] = n

\* C32: a node whose upstream node failed in the same run is not skipped: it
\* is still executed, and the argument for the input port connected to the
\* failed node is None, never a value from the failed node.
C32_DownstreamOfFailureRunsWithNone ==
    \A i \in 1..Len(edges) :
        (Failed(edges[i].src) /\ FeedsFirst(i)) =>
            /\ result[edges[i].src] = None
            /\ invoked[edges[i].dst].called =>
                   ArgOf(edges[i].dst, edges[i].port) = None
            /\ (Returned /\ InOrderOfRun(edges[i].dst)) =>
                   invoked[edges[i].dst].called /\ Finished(edges[i].dst)

\* Node 1 of the two-node chain failed, node 2 was called with None for its
\* port a and succeeded.
C32_Witness ==
    /\ IsGraph(Graph(2, <<Edge(1, 2, "a")>>)) /\ Returned
    /\ status[1] = STATUS_ERROR /\ status[2] = STATUS_SUCCESS
    /\ ArgOf(2, "a") = None /\ invoked[2].called

----------------------------------------------------------------------------
(* Graphs with a cycle                                                     *)

OnCycle(n) == n \in Descendants(edges, n)
Ancestors(n) == {m \in NodeSet : n \in Descendants(edges, m)}

\* a node of a cycle, or a node a path leads to from a node of a cycle
BehindCycle(n) == OnCycle(n) \/ \E m \in Ancestors(n) : OnCycle(m)

\* a node behind a cycle that no path reaches from a node clear of every cycle
OnlyThroughCycle(n) ==
    BehindCycle(n) /\ \A m \in Ancestors(n) : BehindCycle(m)

Untouched(n) ==
    /\ status[n] = STATUS_IDLE /\ result[n] = None
    /\ ~invoked[n].called

RanWithExecutor == Returned /\ executor /\ nodes # <<>> /\ OnePerPort(edges)

\* C34 as stated: in a run of execute_graph on a graph with a cycle, every
\* node on the cycle and every node reachable only through it is never set
\* running and never invoked, and has status idle and result None after the
\* run, while all other nodes are executed normally.
C34_OnlyThroughCycleSkipped ==
    (OnePerPort(edges) /\ ~Acyclic(nodes, edges)) =>
        \A n \in NodeSet :
            IF OnlyThroughCycle(n) THEN Untouched(n)
            ELSE RanWithExecutor => invoked[n].called /\ Finished(n)

\* C34 amended: the nodes left out are the nodes of a cycle and every node a
\* path leads to from a cycle, whatever else feeds them; they are never set
\* running and never invoked, idle with result None after the run, and all
\* other nodes are executed.
C34_BehindCycleSkipped ==
    (OnePerPort(edges) /\ ~Acyclic(nodes, edges)) =>
        \A n \in NodeSet :
            IF BehindCycle(n) THEN Untouched(n)
            ELSE RanWithExecutor => invoked[n].called /\ Finished(n)

\* Node 1 ran; nodes 2 and 3 of the cycle and node 4, which node 1 feeds
\* too, were left idle.
C34_Witness ==
    /\ IsGraph(CycleFeedsJoin) /\ RanWithExecutor
    /\ Finished(1) /\ invoked[1].called
    /\ Untouched(2) /\ Untouched(3) /\ Untouched(4)
    /\ ~OnlyThroughCycle(4)

----------------------------------------------------------------------------
(* Runs and the results of other runs                                      *)

\* What this run has produced for node n so far: invoked is reset when a run
\* starts.
ProducedInRun(n) ==
    IF invoked[n].called /\ invoked[n].out.ok THEN invoked[n].out.val ELSE None

C31_RunNotReentered ==
    /\ frames = <<>>
    /\ pc = "running" =>
           /\ status[sorted_nodes[idx]] = STATUS_RUNNING
           /\ \A k \in 1..Len(sorted_nodes) :
                  k > idx => Untouched(sorted_nodes[k])

----------------------------------------------------------------------------
(* The block-list and the caller's extra modules                           *)

\* The result differs from the result without extra modules only by the
\* not-pre-approved warnings about the extra modules.
SameButForExtraWarnings(with, without, extra) ==
    /\ with.errors = without.errors
    /\ with.is_safe = without.is_safe
    /\ with.imports = without.imports
    /\ with.warnings =
          SelectSeq(without.warnings,
                    LAMBDA w : ~(w.kind = "not_allowed" /\ w.what \in extra))

\* C35: the block-list takes precedence over the caller's extra allowed
\* modules: for every module on the block-list, check_code_safety reports an
\* error for importing it even when the module is passed in allowed_modules,
\* and the extra list only suppresses the not-pre-approved warning of
\* modules that are not block-listed.
C35_BlockListBeatsExtraModules ==
    Checked =>
        /\ SameButForExtraWarnings(check_result, check_code_safety(snippet, {}),
                                   allowed_modules)
        /\ ~HasSyntaxError(snippet) =>
              \A i \in ImportStatements(snippet) :
                  snippet[i].module[1] \in FORBIDDEN_MODULES \cap allowed_modules =>
                      /\ ~check_result.is_safe
                      /\ \E e \in ErrorsAbout(snippet[i].module[1]) :
                            check_result.errors[e].kind = "forbidden_module"

\* A function importing os, checked with os among the extra modules: the
\* error about os is there.
C35_Witness ==
    /\ Checked /\ allowed_modules = {"os"}
    /\ snippet = <<Line("def", "f"), ImportLine("fimport", <<"os">>, 0)>>
    /\ check_result.errors = <<Finding("forbidden_module", "os")>>
    /\ ~check_result.is_safe

\* A function importing numpy, checked with numpy among the extra modules:
\* no warning is left.
ExtraModuleWarningSuppressed ==
    /\ Checked /\ allowed_modules = {"numpy"}
    /\ snippet = <<Line("def", "f"), ImportLine("fimport", <<"numpy">>, 0)>>
    /\ check_result.warnings = <<>> /\ check_result.is_safe

----------------------------------------------------------------------------
(* The connection lists of the ports agree                                 *)

CountIn(list, c) == Cardinality({i \in 1..Len(list) : list[i] = c})
NodeOfPort(port) == port[1]

\* C36: after any sequence of editor operations (connect, disconnect, delete
\* node) the edge lists are consistent: every finalized connection is listed
\* by both its start port and its end port and by no other port, a removed
\* connection is listed by neither, and after a node is deleted no port of a
\* remaining node lists a connection to or from the deleted node, so every
\* target the sort sees is a node of the graph.
C36_ConnectionListsConsistent ==
    /\ \A c \in DOMAIN conn_ends :
          /\ conn_ends[c].in_scene
          /\ \A port \in AllPorts :
                CountIn(connections[port], c) =
                    IF port \in {conn_ends[c].start_port, conn_ends[c].end_port}
                    THEN 1 ELSE 0
          /\ NodeOfPort(conn_ends[c].start_port) \in DOMAIN scene_nodes
          /\ NodeOfPort(conn_ends[c].end_port) \in DOMAIN scene_nodes
    /\ \A port \in AllPorts :
          \A i \in 1..Len(connections[port]) : connections[port][i] \in DOMAIN conn_ends

\* A first connection was made and is gone, node 2 was deleted, and the
\* second connection, from node 1 to node 3, is all that the lists of
\* node 1 and node 3 hold.
C36_Witness ==
    /\ epc = "delete" /\ DOMAIN scene_nodes = {1, 3}
    /\ DOMAIN conn_ends = {2}
    /\ conn_ends[2].start_port = OutPort(1)
    /\ conn_ends[2].end_port = InPort(3, "a")
    /\ connections[OutPort(1)] = <<2>>
    /\ connections[InPort(3, "a")] = <<2>>

(***************************************************************************)
(* The node library (core/nodes/node_library.py) and the dialogs that      *)
(* change it.  NODE_LIBRARY_CATEGORIZED is a dict of dicts; it is modelled *)
(* as the sequence of its categories in insertion order, each with the set *)
(* of the names it holds.  LOCAL_NODE_LIBRARY is modelled by its keys.     *)
(* The display names of the built-in nodes and categories are written in   *)
(* English.                                                                *)
(***************************************************************************)
\* lines 14-32: the module's NODE_LIBRARY_CATEGORIZED as it is written
BuiltInLibrary ==
    << [category |-> "output",   nodes |-> {"print"}],
       [category |-> "constant", nodes |-> {"bool", "int", "float", "string",
                                            "list", "dict"}],
       [category |-> "extract",  nodes |-> {"extract_data"}],
       [category |-> "debug",    nodes |-> {"type_test"}] >>

\* the names typed in the dialogs and the categories chosen in them
LibNames == {"print", "n1", "n2"}
LibCategories == {"output", "A", "B"}

\* `category in NODE_LIBRARY_CATEGORIZED`
HasCategory(categorized, category) ==
    \E i \in DOMAIN categorized : categorized[i].category = category

\* the keys of the categories holding the name, in the order of .items()
CategoriesOf(categorized, name) ==
    SelectSeq(categorized, LAMBDA entry : name \in entry.nodes)

\* lines 35-37: LOCAL_NODE_LIBRARY as it is built from the categorized index
FlatIndex(categorized) ==
    UNION {categorized[i].nodes : i \in DOMAIN categorized}

\* list.remove of an element the list holds once
WithoutCategory(list, category) == SelectSeq(list, LAMBDA c : c # category)

LibState ==
    [categorized |-> NODE_LIBRARY_CATEGORIZED, flat |-> LOCAL_NODE_LIBRARY,
     custom |-> CUSTOM_CATEGORIES]

\* add_node_to_library(name, func, category)
add_node_to_library(st, name, category) ==
    LET fresh == ~HasCategory(st.categorized, category)
        cats == IF fresh
                THEN Append(st.categorized, [category |-> category, nodes |-> {}])
                ELSE st.categorized
        custom == IF fresh /\ \A i \in DOMAIN st.custom : st.custom[i] # category
                  THEN Append(st.custom, category)
                  ELSE st.custom
    IN  [categorized |-> [i \in DOMAIN cats |->
                            IF cats[i].category = category
                            THEN [cats[i] EXCEPT !.nodes = @ \cup {name}]
                            ELSE cats[i]],
         flat |-> st.flat \cup {name},
         custom |-> custom]

\* remove_node_from_library(name): the state it leaves; it returns False
\* exactly when the name is not in LOCAL_NODE_LIBRARY
remove_node_from_library(st, name) ==
    IF name \notin st.flat THEN st
    ELSE LET holding == CategoriesOf(st.categorized, name)
         IN  IF holding = <<>>
             THEN [st EXCEPT !.flat = @ \ {name}]
             ELSE LET category == holding[1].category
                      emptied == holding[1].nodes = {name}
                  IN  [categorized |->
                          IF emptied
                          THEN SelectSeq(st.categorized,
                                         LAMBDA entry : entry.category # category)
                          ELSE [i \in DOMAIN st.categorized |->
                                  IF st.categorized[i].category = category
                                  THEN [st.categorized[i] EXCEPT !.nodes = @ \ {name}]
                                  ELSE st.categorized[i]],
                       flat |-> st.flat \ {name},
                       custom |-> IF emptied
                                  THEN WithoutCategory(st.custom, category)
                                  ELSE st.custom]

\* get_node_category(name)
get_node_category(categorized, name) ==
    LET holding == CategoriesOf(categorized, name)
    IN  IF holding = <<>> THEN "" ELSE holding[1].category

\* the leaves of the node tree: the names a right click can edit or delete
TreeLeaves == FlatIndex(NODE_LIBRARY_CATEGORIZED)

SetLibState(st, op) ==
    /\ NODE_LIBRARY_CATEGORIZED' = st.categorized
    /\ LOCAL_NODE_LIBRARY' = st.flat
    /\ CUSTOM_CATEGORIES' = st.custom
    /\ lpc' = op

libOtherVars == <<schedVars, invokeVars, parseVars, lazy_annotations, checkVars,
                  runtimeVars, pipVars, uiVars, editVars, runVars, portVars>>

\* CustomNodeCodeDialog._generate_node, AINodeGeneratorDialog._create_node: a
\* name not yet in the flat index is added under the chosen category
CreateNode ==
    /\ \E display_name \in LibNames, category \in LibCategories :
         /\ display_name \notin LOCAL_NODE_LIBRARY
         /\ SetLibState(add_node_to_library(LibState, display_name, category),
                        "create")
    /\ UNCHANGED libOtherVars

\* _edit_custom_node then CustomNodeCodeDialog._update_node with the name
\* kept: nothing is removed, the name is added under the category
\* (the original one on No, the chosen one on Yes)
UpdateSameName ==
    /\ \E original_name \in TreeLeaves \cap LOCAL_NODE_LIBRARY \cap LibNames :
         LET original_category ==
                 get_node_category(NODE_LIBRARY_CATEGORIZED, original_name)
         IN  \E category \in LibCategories \cup {original_category} :
                SetLibState(add_node_to_library(LibState, original_name, category),
                            IF category = original_category
                            THEN "update" ELSE "recategorize")
    /\ UNCHANGED libOtherVars

\* the same with the name changed: the new name must not be in the flat
\* index, the old one is removed, the new one added
UpdateRenamed ==
    /\ \E original_name \in TreeLeaves \cap LOCAL_NODE_LIBRARY \cap LibNames,
          display_name \in LibNames, category \in LibCategories :
         /\ display_name # original_name
         /\ display_name \notin LOCAL_NODE_LIBRARY
         /\ SetLibState(
              add_node_to_library(
                  remove_node_from_library(LibState, original_name),
                  display_name, category),
              "rename")
    /\ UNCHANGED libOtherVars

\* _on_node_delete_requested: remove_node_from_library for a leaf of the tree
DeleteFromLibrary ==
    /\ \E node_name \in TreeLeaves \cap LibNames :
         SetLibState(remove_node_from_library(LibState, node_name),
                     IF node_name \in LOCAL_NODE_LIBRARY
                     THEN "delete" ELSE "delete_failed")
    /\ UNCHANGED libOtherVars

InitLibrary ==
    /\ InitGraph(Graph(0, <<>>))
    /\ InvokeIdle /\ ParseIdle
    /\ lazy_annotations = TRUE /\ CheckIdle /\ RuntimeIdle /\ PipIdle /\ UiIdle
    /\ EditIdle /\ RunIdle /\ PortIdle
    /\ NODE_LIBRARY_CATEGORIZED = BuiltInLibrary
    /\ LOCAL_NODE_LIBRARY = FlatIndex(BuiltInLibrary)
    /\ CUSTOM_CATEGORIES = <<>>
    /\ lpc = "loaded"

NextLibrary ==
    \/ CreateNode
    \/ UpdateSameName
    \/ UpdateRenamed
    \/ DeleteFromLibrary

SpecLibrary == InitLibrary /\ [][NextLibrary]_vars

\* C37: after any sequence of add_node_to_library, remove_node_from_library
\* and custom-node updates (same name re-added under another category, or
\* renamed), the flat index and the categorized index hold the same node
\* names, every name belongs to exactly one category, and no category is
\* left empty.
C37_IndexesAgree ==
    /\ LOCAL_NODE_LIBRARY = FlatIndex(NODE_LIBRARY_CATEGORIZED)
    /\ \A name \in LOCAL_NODE_LIBRARY :
          Len(CategoriesOf(NODE_LIBRARY_CATEGORIZED, name)) = 1
    /\ \A i \in DOMAIN NODE_LIBRARY_CATEGORIZED :
          NODE_LIBRARY_CATEGORIZED[i].nodes # {}

====
